---- MODULE Spec2Model ----
(***************************************************************************)
(* Sparse-matrix utilities of gnomad/utils/sparse_mt.py and, for           *)
(* compute_coverage_stats, of gnomad_hail/utils/sparse_mt.py.              *)
(*                                                                         *)
(* Spec               : compute_last_ref_block_end run row by row over a   *)
(*                      sparse matrix (hl.scan).                           *)
(* SpecDensify        : the scan, then densify_sites on that matrix with   *)
(*                      the table the scan produced.                       *)
(* SpecDensifyLacking : the scan, then densify_sites with a table that     *)
(*                      lacks the row of one of the targets.               *)
(* SpecAgg            : _get_info_agg_expr on an entry schema and a        *)
(*                      configuration of fields to aggregate.              *)
(* SpecQD             : _get_info_agg_expr and the values of its           *)
(*                      aggregations on a row, for QUALapprox and VarDP.   *)
(* SpecMQ             : the same for RAW_MQandDP, RAW_MQ and MQ_DP.        *)
(* SpecSite           : get_site_info_expr on a row with reference and     *)
(*                      non-reference entries, for SB and DP.              *)
(* SpecPloidy         : impute_sex_ploidy on one column of a matrix whose  *)
(*                      rows are on one contig.                            *)
(* SpecCoverage       : compute_coverage_stats on the matrix read so far.  *)
(* SpecRow            : the statistics compute_coverage_stats takes of one *)
(*                      densified row, given by its depths.                *)
(* SpecAS             : get_as_info_expr on a row of several alternate     *)
(*                      alleles, for SB and QUALapprox.                    *)
(* SpecInfo           : default_compute_info on such a row, with and       *)
(*                      without the site annotations.                      *)
(***************************************************************************)
EXTENDS Integers, Sequences, FiniteSets, TLC

\* ------------------------------------------------------------------ bounds
\* Positions of a contig are 1..MaxPos.
MaxPos == 3
\* Rows of the sparse matrix.
MaxRows == 3
\* Defined (non-missing) entries in the whole matrix.
MaxEntries == 2
\* Loci in the target site table.
MaxSites == 2

\* Columns of the matrix.
Samples == {"s1", "s2"}
\* Contigs, by their index in the reference genome's contig ordering, and
\* their lengths: the first has MaxPos positions, the second a single one.
Contigs == {1, 2}
ContigLength(c) == IF c = 1 THEN MaxPos ELSE 1

Loci == {l \in [contig : Contigs, position : 1..MaxPos] :
            l.position <= ContigLength(l.contig)}

\* Row order of a MatrixTable keyed by locus.
LocusLT(a, b) ==
    \/ a.contig < b.contig
    \/ a.contig = b.contig /\ a.position < b.position

Min(S) == CHOOSE x \in S : \A y \in S : x <= y

\* ----------------------------------------------------------------- entries
\* An entry of the matrix.  def = FALSE is a missing entry.  END = 0 is a
\* missing END; END > 0 makes the entry the start of a reference block
\* [locus.position, END].  val stands for the entry's other fields (LGT, DP,
\* gvcf_info, ...): it is the number of the row the entry was stored in, so
\* that two entries of one column are never confused.
MissingEntry == [def |-> FALSE, END |-> 0, val |-> 0]

\* The entries a sample can have in row number n, at locus l.
EntriesAt(n, l) ==
    {MissingEntry}
        \cup {[def |-> TRUE, END |-> e, val |-> n] :
                e \in {0} \cup (l.position..ContigLength(l.contig))}

NumDefined(entries) == Cardinality({j \in Samples : entries[j].def})

RECURSIVE TotalDefined(_)
TotalDefined(rs) ==
    IF rs = <<>> THEN 0
    ELSE NumDefined(rs[1].entries) + TotalDefined(Tail(rs))

\* ------------------------------------------------- compute_last_ref_block_end
\* The state of hl.scan._prev_nonnull for one column: missing until a
\* non-missing value has been seen, then the last non-missing value seen.
NoBlock == [def |-> FALSE, locus |-> [contig |-> 0, position |-> 0], END |-> 0]

\* hl.or_missing(hl.is_defined(entry.END), hl.tuple([ht.locus, entry.END]))
ScanValue(locus, entry) ==
    IF entry.def /\ entry.END # 0
        THEN [def |-> TRUE, locus |-> locus, END |-> entry.END]
        ELSE NoBlock

\* _prev_nonnull folds one more value in: a missing value leaves it unchanged.
PrevNonnullNoSkip(state, x) == x
PrevNonnull(state, x) == IF x.def THEN x ELSE state

\* 2.1: hl.or_missing((x[1] >= locus.position) & (x[0].contig == locus.contig),
\*                    x[0].position); a missing x gives a missing result.
OverlapsNoContig(x, locus) == x.def /\ x.END >= locus.position
Overlaps(x, locus) ==
    x.def /\ x.END >= locus.position /\ x.locus.contig = locus.contig

\* The defined elements of the mapped array, as hl.min sees them.
BlockStarts(scan, locus) ==
    {scan[j].locus.position : j \in {k \in Samples : Overlaps(scan[k], locus)}}

\* hl.or_else(hl.min(...), ht.locus.position)
LastEndMax(scan, locus) ==
    IF BlockStarts(scan, locus) = {} THEN locus.position
    ELSE CHOOSE x \in BlockStarts(scan, locus) :
            \A y \in BlockStarts(scan, locus) : x >= y
LastEndPosition(scan, locus) ==
    IF BlockStarts(scan, locus) = {} THEN locus.position
    ELSE Min(BlockStarts(scan, locus))

\* ------------------------------------------- _get_info_agg_expr: its inputs
\* Names of entry fields that can be asked for or be in the schema.
FieldNames == {"QUALapprox", "VarDP"}
\* Names asked for in one call, over the four groups.
MaxFields == 2

\* The four *_agg_fields parameters, in the order the function resolves them.
AggGroups == <<"sum_agg_fields", "int32_sum_agg_fields",
               "median_agg_fields", "array_sum_agg_fields">>
GroupNames == {AggGroups[g] : g \in 1..Len(AggGroups)}

\* prefix: '' for the site-level call, 'AS_' for the allele-specific one.
Prefixes == {"", "AS_"}

SeqsUpTo(S, n) == UNION {[1..k -> S] : k \in 0..n}
NoDuplicates(s) == \A i, j \in 1..Len(s) : i # j => s[i] # s[j]

\* One *_agg_fields argument: a list of names (is_list), or a dict from names
\* to expressions of the caller's, given by its keys.
GroupArgs ==
    {a \in [is_list : BOOLEAN, fields : SeqsUpTo(FieldNames, MaxFields)] :
        a.is_list \/ NoDuplicates(a.fields)}

RECURSIVE TotalFields(_, _)
TotalFields(fields, g) ==
    IF g = 0 THEN 0 ELSE Len(fields[AggGroups[g]].fields) + TotalFields(fields, g - 1)

\* mt.entry: the top-level entry fields, and the fields of gvcf_info when the
\* entry has that struct.
NoSchema == [entry |-> {}, gvcf_info |-> [def |-> FALSE, fields |-> {}]]
MtSchemas ==
    {m \in [entry : SUBSET FieldNames,
            gvcf_info : [def : BOOLEAN, fields : SUBSET FieldNames]] :
        ~m.gvcf_info.def => m.gvcf_info.fields = {}}

NoArgs == [fields |-> [g \in GroupNames |-> [is_list |-> TRUE, fields |-> <<>>]],
           prefix |-> ""]
AggArgs ==
    {a \in [fields : [GroupNames -> GroupArgs], prefix : Prefixes] :
        TotalFields(a.fields, Len(AggGroups)) <= MaxFields}

NotCalled == [status |-> "none", missing |-> <<>>, agg_expr |-> {}]

\* ------------------------------------------------- entry fields and values
\* Values of the numeric entry fields are 0..MaxValue.
MaxValue == 1

\* The entry fields the info functions know by name; SB and RAW_MQandDP are
\* arrays, the others are numbers.
InfoNames ==
    {"QUALapprox", "VarDP", "RAW_MQ", "MQ_DP", "DP", "SB", "RAW_MQandDP",
     "ReadPosRankSum", "MQRankSum"}
ArrayFields == {"SB", "RAW_MQandDP"}

\* The value of a field in an entry: <<>> when missing, <<x>> for a number,
\* <<x, y>> for an array.
FieldValues(f) ==
    {<<>>} \cup (IF f \in ArrayFields THEN [1..2 -> 0..MaxValue]
                                      ELSE {<<x>> : x \in 0..MaxValue})

\* The samples in column order.
RECURSIVE SetToSeq(_)
SetToSeq(S) ==
    IF S = {} THEN <<>>
    ELSE LET x == CHOOSE y \in S : TRUE IN <<x>> \o SetToSeq(S \ {x})
Cols == SetToSeq(Samples)

\* An entry of the row the aggregations run over: its call is a reference
\* call or not, its END (0 when missing) and its fields.
NoFields == [f \in InfoNames |-> <<>>]
NoInfoEntries == [j \in Samples |-> [LGT |-> "hom_ref", END |-> 0, fields |-> NoFields]]

\* ------------------------------------------------ impute_sex_ploidy inputs
\* Depths are 0..MaxDepth.
MaxDepth == 4

\* The contig normalised by, and the contigs a reference genome can report
\* as X and as Y contigs.
normalization_contig == "chr20"
XCandidates == <<"X", "X_alt">>
YCandidates == <<"Y", "Y_alt">>
PloidyContigs == {normalization_contig, "X", "Y"}

\* chr_x = None
None == "None"

\* The positions of a contig that rows can be at.
ChrPositions == 100..(100 + MaxPos)

\* DP of an entry: <<>> when missing.
Depths == {<<>>} \cup {<<d>> : d \in 0..MaxDepth}

\* The entry of the column in a row at position p: a non-reference call, or a
\* reference block from p to END.
ChrEntries(p) ==
    {[position |-> p, LGT |-> "non_ref", END |-> 0, DP |-> d] : d \in Depths}
        \cup {[position |-> p, LGT |-> "hom_ref", END |-> e, DP |-> d] :
                e \in {x \in ChrPositions : x >= p}, d \in Depths}

AllChrEntries == UNION {ChrEntries(p) : p \in ChrPositions}

\* The rows of one contig, in locus order: up to two.
ChrRows ==
    {<<>>} \cup {<<a>> : a \in AllChrEntries}
           \cup UNION {{<<a, b>> : b \in {x \in AllChrEntries : x.position > a.position}} :
                          a \in AllChrEntries}

NoPloidyArgs == [chr_x |-> None, chr_y |-> None, x_contigs |-> <<>>, y_contigs |-> <<>>]
NoChrMt == [contig |-> None, rows |-> <<>>]
PloidyNotCalled == [status |-> "not called"]

\* ------------------------------------------- compute_coverage_stats inputs
\* Columns of a densified row given by its depths.
MaxSamples == 4

\* Thresholds: lists without repetition, in any order.
Thresholds == {1, 5, 10}
BinLists(T) == {b \in SeqsUpTo(T, Cardinality(T)) : b # <<>> /\ NoDuplicates(b)}

\* The depth of a column in a row: <<>> when missing.
RowDepths == {<<>>} \cup {<<d>> : d \in {0, 4, 5, 10, 20}}

\* ------------------------------------------------ allele-specific inputs
\* Alternate alleles of a row: 1..MaxAlts.
MaxAlts == 2

\* A column's local alleles: missing, or the alternate alleles among them.
NoLA == [def |-> FALSE, alts |-> {}]
LocalAlleles(n_alt) == {NoLA} \cup [def : {TRUE}, alts : SUBSET (1..n_alt)]

\* mt.LA.contains(ai): an entry with LA missing is filtered out.
LAContains(la, ai) == la.def /\ ai \in la.alts

\* LA as the list it is: the reference allele, then the alternate alleles in
\* ascending order.
RECURSIVE Ascending(_)
Ascending(S) ==
    IF S = {} THEN <<>>
    ELSE LET m == CHOOSE x \in S : \A y \in S : x <= y
         IN  <<m>> \o Ascending(S \ {m})
LocalAlleleList(la) == <<0>> \o Ascending(la.alts)

\* LGT: missing, or a diploid unphased call of two indices into LA.
Calls(la) ==
    {<<>>} \cup (IF la.def
                     THEN {c \in (0..Cardinality(la.alts)) \X (0..Cardinality(la.alts)) :
                              c[1] <= c[2]}
                     ELSE {})
NoCol == [LA |-> NoLA, LGT |-> <<>>, adj |-> FALSE]
NoASRow == [n_alt |-> 0, cols |-> [j \in Samples |-> NoCol]]

\* SB of an entry: forward and reverse reference counts, then forward and
\* reverse alternate counts.
SBVectors == {<<>>, <<1, 0, 0, 2>>, <<0, 1, 3, 0>>}

VARIABLES
    pc,                     \* "scan": rows are being read; "densified";
                            \*   "agg": before _get_info_agg_expr,
                            \*   get_site_info_expr or get_as_info_expr;
                            \*   "agg_done"; "ploidy", "ploidy_done";
                            \*   "coverage_done"; "row", "row_done";
                            \*   "info": before default_compute_info;
                            \*   "info_done"
    rows,                   \* mt: the rows read so far, in locus order
    scan,                   \* the hl.scan state, one _prev_nonnull per column
    ht,                     \* the scan's output table, one row per matrix row
    sites_ht,               \* densify_sites: the target loci
    last_END_positions_ht,  \* densify_sites: the table it was given
    filtered,               \* densify_sites: the loci of the rows kept before
                            \*   densifying, for semi_join_rows = TRUE and = FALSE
    dense,                  \* densify_sites: the rows returned, for
                            \*   semi_join_rows = TRUE and = FALSE
    mt_schema,              \* _get_info_agg_expr: the entry fields of mt
    agg_args,               \* _get_info_agg_expr: the *_agg_fields and prefix
    info_agg,               \* _get_info_agg_expr: what the call gave
    info_locus,             \* the locus of the row the aggregations run over
    as_row,                 \* that row's number of alternate alleles and, for
                            \*   each column, its LA, its LGT and whether it
                            \*   is high-confidence (adj)
    info_entries,           \* the entries of that row
    info,                   \* the aggregations' values on that row
    ploidy_args,            \* impute_sex_ploidy: chr_x, chr_y and the X and Y
                            \*   contigs of the reference genome
    chr_mt,                 \* impute_sex_ploidy: the rows of one column of mt
    ploidy,                 \* impute_sex_ploidy: what the call gave
    reference_ht,           \* compute_coverage_stats: the loci to report
    coverage_over_x_bins,   \* compute_coverage_stats: the thresholds, as given
    dense_DP,               \* the depths of the columns in one densified row
    coverage_ht             \* compute_coverage_stats: the rows of the result

vars == <<pc, rows, scan, ht, sites_ht, last_END_positions_ht, filtered, dense,
          mt_schema, agg_args, info_agg, info_locus, as_row, info_entries, info,
          ploidy_args, chr_mt, ploidy,
          reference_ht, coverage_over_x_bins, dense_DP, coverage_ht>>

ploidyVars == <<ploidy_args, chr_mt, ploidy>>

coverageVars == <<reference_ht, coverage_over_x_bins, dense_DP, coverage_ht>>

aggVars == <<mt_schema, agg_args, info_agg, info_locus, as_row, info_entries, info>>

densifyVars == <<sites_ht, last_END_positions_ht, filtered, dense>>

NoLocus == [contig |-> 0, position |-> 0]

LastLocus == IF rows = <<>> THEN NoLocus ELSE rows[Len(rows)].locus

\* No compute_coverage_stats call made.
NoCoverageCall ==
    /\ reference_ht = {}
    /\ coverage_over_x_bins = <<>>
    /\ dense_DP = <<>>
    /\ coverage_ht = <<>>

\* No impute_sex_ploidy call made.
NoPloidyCall ==
    /\ ploidy_args = NoPloidyArgs
    /\ chr_mt = NoChrMt
    /\ ploidy = PloidyNotCalled

\* No matrix read yet and no densify_sites call made.
InitMatrix ==
    /\ rows = <<>>
    /\ scan = [j \in Samples |-> NoBlock]
    /\ ht = <<>>
    /\ sites_ht = {}
    /\ last_END_positions_ht = <<>>
    /\ filtered = [semi \in BOOLEAN |-> <<>>]
    /\ dense = [semi \in BOOLEAN |-> <<>>]

Init ==
    /\ pc = "scan"
    /\ InitMatrix
    /\ NoCoverageCall
    /\ NoPloidyCall
    /\ mt_schema = NoSchema
    /\ agg_args = NoArgs
    /\ info_agg = NotCalled
    /\ info_locus = NoLocus
    /\ as_row = NoASRow
    /\ info_entries = NoInfoEntries
    /\ info = {}

\* One row of the scan: the row's output is computed from the scan state of
\* the rows before it, then the row's own entries are folded in.
ScanRow ==
    /\ pc = "scan"
    /\ Len(rows) < MaxRows
    /\ \E locus \in Loci :
          /\ LocusLT(LastLocus, locus)
          /\ \E entries \in [Samples -> EntriesAt(Len(rows) + 1, locus)] :
                /\ TotalDefined(rows) + NumDefined(entries) <= MaxEntries
                /\ rows' = Append(rows, [locus |-> locus, entries |-> entries])
                /\ ht' = Append(ht, [locus |-> locus,
                                     last_END_position |-> LastEndPosition(scan, locus)])
                /\ scan' = [j \in Samples |->
                              PrevNonnull(scan[j], ScanValue(locus, entries[j]))]
    /\ UNCHANGED <<pc, densifyVars, aggVars, ploidyVars, coverageVars>>

\* ------------------------------------------------- hl.experimental.densify
\* What densify's scan remembers of a column: the last entry with END defined
\* in the rows before, with the contig of its row (__contig).
NoPrev == [def |-> FALSE, contig |-> 0, entry |-> MissingEntry]

\* hl.scan._prev_nonnull(hl.or_missing(hl.is_defined(entry.END), entry))
DensifyScanValue(locus, entry) ==
    IF entry.def /\ entry.END # 0
        THEN [def |-> TRUE, contig |-> locus.contig, entry |-> entry]
        ELSE NoPrev

\* hl.cond(~is_defined(entry) & (prev.END >= locus.position)
\*         & (prev.__contig == locus.contig), prev_entry, entry)
DensifyEntry(prev, locus, entry) ==
    IF ~entry.def /\ prev.def /\ prev.entry.END >= locus.position
            /\ prev.contig = locus.contig
        THEN prev.entry
        ELSE entry

RECURSIVE DensifyFrom(_, _)
DensifyFrom(rs, prev) ==
    IF rs = <<>> THEN <<>>
    ELSE <<[locus |-> rs[1].locus,
            entries |-> [j \in Samples |->
                            DensifyEntry(prev[j], rs[1].locus, rs[1].entries[j])]]>>
         \o DensifyFrom(Tail(rs),
               [j \in Samples |->
                   PrevNonnull(prev[j], DensifyScanValue(rs[1].locus, rs[1].entries[j]))])

Densify(rs) == DensifyFrom(rs, [j \in Samples |-> NoPrev])

\* ------------------------------------------------------------ densify_sites
\* A table keyed by locus is a sequence of rows in key order.
KeysOf(tbl) == {tbl[i].locus : i \in 1..Len(tbl)}

\* tbl[key]: the row of that key; missing when the table has none.
HasKey(tbl, l) == \E i \in 1..Len(tbl) : tbl[i].locus = l
Lookup(tbl, l) == tbl[CHOOSE i \in 1..Len(tbl) : tbl[i].locus = l]

NoInterval == [def |-> FALSE, contig |-> 0, start |-> 0, end |-> 0]

\* hl.locus_interval(contig, start, end=..., includes_end=True): both ends
\* included.
LocusInterval(contig, start, end) ==
    [def |-> TRUE, contig |-> contig, start |-> start, end |-> end]

IntervalContainsOpenEnd(iv, l) ==
    iv.def /\ iv.contig = l.contig /\ iv.start <= l.position /\ l.position < iv.end
IntervalContains(iv, l) ==
    iv.def /\ iv.contig = l.contig /\ iv.start <= l.position /\ l.position <= iv.end

\* sites_ht.annotate(interval = ...): a site the table has no row for gets a
\* missing start, hence a missing interval.
SiteIntervalSelfDefault(tbl, s) ==
    IF HasKey(tbl, s)
        THEN LocusInterval(s.contig, Lookup(tbl, s).last_END_position, s.position)
        ELSE LocusInterval(s.contig, s.position, s.position)
SiteIntervalPoint(tbl, s) ==
    IF HasKey(tbl, s)
        THEN LocusInterval(s.contig, s.position, s.position)
        ELSE NoInterval
SiteInterval(tbl, s) ==
    IF HasKey(tbl, s)
        THEN LocusInterval(s.contig, Lookup(tbl, s).last_END_position, s.position)
        ELSE NoInterval

\* sites_ht.filter(hl.is_defined(sites_ht.interval))
AnnotatedSites(sites, tbl) ==
    {a \in {[locus |-> s, interval |-> SiteInterval(tbl, s)] : s \in sites} :
        a.interval.def}

\* mt.filter_rows(hl.is_defined(sites_ht.key_by('interval')[mt.locus]))
SemiJoinRows(rs, asites) ==
    LET Keep(r) == \E a \in asites : IntervalContains(a.interval, r.locus)
    IN  SelectSeq(rs, Keep)

\* intervals = sites_ht.interval.collect(): the intervals in key (locus) order.
RECURSIVE Collect(_)
Collect(asites) ==
    IF asites = {} THEN <<>>
    ELSE LET a == CHOOSE x \in asites :
                    \A y \in asites : x = y \/ LocusLT(x.locus, y.locus)
         IN  <<a.interval>> \o Collect(asites \ {a})

RECURSIVE InAnyInterval(_, _)
InAnyInterval(intervals, l) ==
    IF intervals = <<>> THEN FALSE
    ELSE IntervalContains(intervals[1], l) \/ InAnyInterval(Tail(intervals), l)

\* hl.filter_intervals(mt, intervals)
FilterIntervalsFirstOnly(rs, intervals) ==
    LET Keep(r) == intervals # <<>> /\ IntervalContains(intervals[1], r.locus)
    IN  SelectSeq(rs, Keep)
FilterIntervals(rs, intervals) ==
    LET Keep(r) == InAnyInterval(intervals, r.locus)
    IN  SelectSeq(rs, Keep)

\* The rows kept before densification, by strategy.
RetainedRows(rs, asites, semi) ==
    IF semi THEN SemiJoinRows(rs, asites)
    ELSE FilterIntervals(rs, Collect(asites))

\* mt.filter_rows(hl.is_defined(sites_ht[mt.locus]))
FinalFilterNone(rs, asites) == rs
FinalFilterByInterval(rs, asites) ==
    LET Keep(r) == \E a \in asites : IntervalContains(a.interval, r.locus)
    IN  SelectSeq(rs, Keep)
FinalFilter(rs, asites) ==
    LET Keep(r) == \E a \in asites : a.locus = r.locus
    IN  SelectSeq(rs, Keep)

\* The keys of a sequence of rows, in order.
RECURSIVE LociSeq(_)
LociSeq(rs) ==
    IF rs = <<>> THEN <<>> ELSE <<Head(rs).locus>> \o LociSeq(Tail(rs))

\* hl.experimental.densify on the retained rows, then the final filter.
DensifyRetained(retained, asites) == FinalFilter(Densify(retained), asites)

densify_sites(mt, sites, tbl, semi) ==
    LET asites == AnnotatedSites(sites, tbl)
    IN  DensifyRetained(RetainedRows(mt, asites, semi), asites)

\* A table that lacks the k-th row of tbl.
WithoutRow(tbl, k) == SubSeq(tbl, 1, k - 1) \o SubSeq(tbl, k + 1, Len(tbl))

SiteTables == {S \in SUBSET Loci : Cardinality(S) <= MaxSites}

\* densify_sites(mt, sites_ht, last_END_positions_ht, semi_join_rows) on the
\* rows read so far, called with either strategy, the target loci S and the
\* table tbl.
DensifySitesWith(S, tbl) ==
    /\ pc = "scan"
    /\ sites_ht' = S
    /\ last_END_positions_ht' = tbl
    /\ \E asites \in {AnnotatedSites(sites_ht', last_END_positions_ht')} :
         \E retained \in {[semi \in BOOLEAN |-> RetainedRows(rows, asites, semi)]} :
           /\ filtered' = [semi \in BOOLEAN |-> LociSeq(retained[semi])]
           /\ dense' = [semi \in BOOLEAN |-> DensifyRetained(retained[semi], asites)]
    /\ pc' = "densified"
    /\ UNCHANGED <<rows, scan, ht, aggVars, ploidyVars, coverageVars>>

\* The call with the table compute_last_ref_block_end gave for this matrix.
DensifySitesOwnTable == \E S \in SiteTables : DensifySitesWith(S, ht)

\* The call with a table that lacks the row of a target: of the most upstream
\* target that is a row of the matrix, the one that can lie inside the
\* interval of another target (the table is only read at the keys of
\* sites_ht).
DensifySitesLackingRow ==
    \E S \in SiteTables, n \in 1..Len(ht) :
        /\ ht[n].locus \in S
        /\ \A m \in 1..(n - 1) : ht[m].locus \notin S
        /\ DensifySitesWith(S, WithoutRow(ht, n))

Next == ScanRow

Spec == Init /\ [][Next]_vars

NextDensify == ScanRow \/ DensifySitesOwnTable

SpecDensify == Init /\ [][NextDensify]_vars

NextDensifyLacking == ScanRow \/ DensifySitesLackingRow

SpecDensifyLacking == Init /\ [][NextDensifyLacking]_vars

\* ---------------------------------------------------------- _get_info_agg_expr
\* 'gvcf_info' in mt.entry and f in mt.gvcf_info
InGvcfInfo(mt, f) == mt.gvcf_info.def /\ f \in mt.gvcf_info.fields

\* mt[f], mt.gvcf_info[f], or an expression the caller put in a dict.
Expr(src, f) == [src |-> src, name |-> f]

\* _agg_list_to_dict, out_fields: the names found under gvcf_info, updated
\* with the names found at the top level of the entry.
OutFields(mt, fields) ==
    {[name |-> fields[i],
      expr |-> IF fields[i] \in mt.entry THEN Expr("entry", fields[i])
                                         ELSE Expr("gvcf_info", fields[i])] :
        i \in {k \in 1..Len(fields) :
                  fields[k] \in mt.entry \/ InGvcfInfo(mt, fields[k])}}

IsMissingField(mt, f) == \A x \in OutFields(mt, <<f>>) : x.name # f

MissingFieldsFirstOnly(mt, fields) ==
    LET all == SelectSeq(fields, LAMBDA f : IsMissingField(mt, f))
    IN  IF all = <<>> THEN <<>> ELSE <<Head(all)>>

\* _agg_list_to_dict, missing_fields: the names of the list that are not in
\* out_fields, in the order of the list.
MissingFields(mt, fields) ==
    SelectSeq(fields, LAMBDA f : IsMissingField(mt, f))

\* The dict a caller passed instead of a list.
CallerDict(fields) ==
    {[name |-> fields[i], expr |-> Expr("expr", fields[i])] : i \in 1..Len(fields)}

\* "Map str to expressions where needed": the groups that are lists go through
\* _agg_list_to_dict one after the other; the first ValueError ends the call.
RECURSIVE ResolveGroups(_, _, _, _)
ResolveGroups(mt, fields, g, dicts) ==
    IF g > Len(AggGroups)
        THEN [raised |-> FALSE, missing |-> <<>>, dicts |-> dicts]
        ELSE LET a == fields[AggGroups[g]]
             IN  IF ~a.is_list
                     THEN ResolveGroups(mt, fields, g + 1,
                              [dicts EXCEPT ![AggGroups[g]] = CallerDict(a.fields)])
                 ELSE IF MissingFields(mt, a.fields) # <<>>
                     THEN [raised |-> TRUE,
                           missing |-> MissingFields(mt, a.fields),
                           dicts |-> dicts]
                 ELSE ResolveGroups(mt, fields, g + 1,
                          [dicts EXCEPT ![AggGroups[g]] = OutFields(mt, a.fields)])

\* agg_expr is a dict: a set of items with distinct keys.
InAggExpr(agg_expr, k) == \E x \in agg_expr : x.key = k
Pop(agg_expr, k) == {x \in agg_expr : x.key # k}
Update(agg_expr, items) ==
    {x \in agg_expr : \A y \in items : y.key # x.key} \cup items

\* An item of agg_expr: its key, the aggregator, the expression aggregated
\* and, for a field derived from other aggregations, those aggregations.
Aggregators(dict, prefix, agg) ==
    {[key |-> prefix \o x.name, agg |-> agg, expr |-> x.expr, args |-> <<>>] :
        x \in dict}

\* "Create aggregators": median, sum, int32 sum, array sum, in that order.
CreateAggregators(dicts, prefix) ==
    Update(Update(Update(
        Aggregators(dicts["median_agg_fields"], prefix, "approx_quantiles"),
        Aggregators(dicts["sum_agg_fields"], prefix, "sum")),
        Aggregators(dicts["int32_sum_agg_fields"], prefix, "int32_sum")),
        Aggregators(dicts["array_sum_agg_fields"], prefix, "array_sum"))

\* hl.agg.sum and hl.agg.approx_quantiles take a number, hl.agg.array_agg an
\* array: a field of the other type is refused when the aggregator is built.
IllTyped(dicts) ==
    \E g \in GroupNames : \E x \in dicts[g] :
        /\ x.expr.src # "expr"
        /\ (x.name \in ArrayFields) # (g = "array_sum_agg_fields")

Item(agg_expr, k) == CHOOSE x \in agg_expr : x.key = k
Operand(x) == [agg |-> x.agg, expr |-> x.expr]

\* The same with the inputs of MQ left in agg_expr.
ComputeMQKeepInputs(agg_expr, prefix) ==
    IF InAggExpr(agg_expr, prefix \o "RAW_MQandDP")
        THEN Update(agg_expr,
                {[key |-> prefix \o "MQ", agg |-> "MQ",
                  expr |-> Expr("agg_expr", "RAW_MQandDP"),
                  args |-> <<Operand(Item(agg_expr, prefix \o "RAW_MQandDP"))>>]})
    ELSE IF InAggExpr(agg_expr, prefix \o "RAW_MQ")
                /\ InAggExpr(agg_expr, prefix \o "MQ_DP")
        THEN Update(agg_expr,
                {[key |-> prefix \o "MQ", agg |-> "MQ",
                  expr |-> Expr("agg_expr", "MQ_DP/RAW_MQ"),
                  args |-> <<Operand(Item(agg_expr, prefix \o "MQ_DP")),
                             Operand(Item(agg_expr, prefix \o "RAW_MQ"))>>]})
    ELSE agg_expr

\* RAW_MQandDP, or else MQ_DP and RAW_MQ, are popped and replaced by MQ.
ComputeMQ(agg_expr, prefix) ==
    IF InAggExpr(agg_expr, prefix \o "RAW_MQandDP")
        THEN Update(Pop(agg_expr, prefix \o "RAW_MQandDP"),
                {[key |-> prefix \o "MQ", agg |-> "MQ",
                  expr |-> Expr("agg_expr", "RAW_MQandDP"),
                  args |-> <<Operand(Item(agg_expr, prefix \o "RAW_MQandDP"))>>]})
    ELSE IF InAggExpr(agg_expr, prefix \o "RAW_MQ")
                /\ InAggExpr(agg_expr, prefix \o "MQ_DP")
        THEN Update(Pop(Pop(agg_expr, prefix \o "MQ_DP"), prefix \o "RAW_MQ"),
                {[key |-> prefix \o "MQ", agg |-> "MQ",
                  expr |-> Expr("agg_expr", "MQ_DP/RAW_MQ"),
                  args |-> <<Operand(Item(agg_expr, prefix \o "MQ_DP")),
                             Operand(Item(agg_expr, prefix \o "RAW_MQ"))>>]})
    ELSE agg_expr

\* QD is added when both VarDP and QUALapprox are keys of agg_expr.
NeedsQD(agg_expr, prefix) ==
    /\ InAggExpr(agg_expr, prefix \o "VarDP")
    /\ InAggExpr(agg_expr, prefix \o "QUALapprox")

\* int32_sum_agg_fields['VarDP']: a KeyError when the dict has no such key.
HasVarDP(dicts) == \E x \in dicts["int32_sum_agg_fields"] : x.name = "VarDP"

\* var_dp = hl.int32(hl.agg.sum(int32_sum_agg_fields['VarDP'])) and
\* QD = hl.cond(var_dp > 0, agg_expr[QUALapprox] / var_dp, 0)
ComputeQD(agg_expr, dicts, prefix) ==
    IF NeedsQD(agg_expr, prefix)
        THEN Update(agg_expr,
                {[key |-> prefix \o "QD", agg |-> "QD",
                  expr |-> Expr("agg_expr", "QUALapprox/VarDP"),
                  args |-> <<Operand(Item(agg_expr, prefix \o "QUALapprox")),
                             [agg |-> "int32_sum",
                              expr |-> (CHOOSE x \in dicts["int32_sum_agg_fields"] :
                                            x.name = "VarDP").expr]>>]})
        ELSE agg_expr

\* SB is cast to int32.
CastSB(agg_expr, prefix) ==
    {IF x.key = prefix \o "SB" THEN [x EXCEPT !.agg = "int32(" \o @ \o ")"] ELSE x :
        x \in agg_expr}

_get_info_agg_expr(mt, args) ==
    LET resolved == ResolveGroups(mt, args.fields, 1, [g \in GroupNames |-> {}])
        with_mq == ComputeMQ(CreateAggregators(resolved.dicts, args.prefix), args.prefix)
    IN  IF resolved.raised
            THEN [status |-> "ValueError", missing |-> resolved.missing, agg_expr |-> {}]
        ELSE IF IllTyped(resolved.dicts)
            THEN [status |-> "TypeError", missing |-> <<>>, agg_expr |-> {}]
        ELSE IF NeedsQD(with_mq, args.prefix) /\ ~HasVarDP(resolved.dicts)
            THEN [status |-> "KeyError", missing |-> <<>>, agg_expr |-> {}]
        ELSE [status |-> "returned", missing |-> <<>>,
              agg_expr |-> CastSB(ComputeQD(with_mq, resolved.dicts, args.prefix),
                                  args.prefix)]

\* ------------------------------------------- the aggregations' values on a row
\* A value: a number n, a missing value, the quotient n/d, its square root, an
\* array, or the approximate median of the values counted in `of`.
Val(kind, n, d, of) == [kind |-> kind, n |-> n, d |-> d, of |-> of]
NAVal == Val("NA", 0, 1, <<>>)
Num(x) == Val("num", x, 1, <<>>)

\* The expression at an entry; an expression of the caller's is not known.
FieldAt(e, expr) == IF expr.src = "expr" THEN <<>> ELSE e.fields[expr.name]

\* The non-missing values of the expression over the entries es.
DefinedValues(expr, es) ==
    SelectSeq([i \in 1..Len(es) |-> FieldAt(es[i], expr)], LAMBDA v : v # <<>>)

\* The sum of the k-th coordinates.
RECURSIVE SumSeq(_, _)
SumSeq(vs, k) == IF vs = <<>> THEN 0 ELSE Head(vs)[k] + SumSeq(Tail(vs), k)

\* How many of the values are x, for x = 0, 1, ...
Counts(vs) ==
    [x1 \in 1..(MaxValue + 1) |->
        Cardinality({i \in 1..Len(vs) : vs[i][1] = x1 - 1})]

\* hl.agg.sum skips missing values and is 0 over none; approx_quantiles is
\* missing over none; array_agg skips missing arrays and is missing over none.
EvalAggregator(op, es) ==
    LET vs == DefinedValues(op.expr, es)
    IN  IF op.agg \in {"sum", "int32_sum"} THEN Num(SumSeq(vs, 1))
        ELSE IF vs = <<>> THEN NAVal
        ELSE IF op.agg = "approx_quantiles" THEN Val("approx_median", 0, 1, Counts(vs))
        ELSE Val("array", 0, 1, [k \in 1..Len(vs[1]) |-> SumSeq(vs, k)])

\* x / d for d > 0.
Quotient(x, d) ==
    IF x.kind = "num" THEN Val("ratio", x.n, d, <<>>)
    ELSE IF x.kind = "approx_median" THEN Val("approx_median_ratio", 0, d, x.of)
    ELSE NAVal

\* What an approximate median was taken of, or the number itself.
ApproxOf(v) == IF v.kind = "num" THEN <<v.n>> ELSE v.of

\* hl.cond(mq_tuple[1] > 0, hl.sqrt(mq_tuple[0] / mq_tuple[1]), 0): missing
\* when the condition is.  With an approximate median among the operands the
\* value is only known to come from the values the medians were taken of.
EvalMQ(item, es) ==
    IF Len(item.args) = 1
        THEN LET a == EvalAggregator(item.args[1], es)
             IN  IF a.kind # "array" THEN NAVal
                 ELSE IF a.of[2] > 0 THEN Val("sqrt", a.of[1], a.of[2], <<>>)
                 ELSE Num(0)
        ELSE LET x == EvalAggregator(item.args[1], es)
                 y == EvalAggregator(item.args[2], es)
             IN  IF x.kind = "NA" \/ y.kind = "NA" THEN NAVal
                 ELSE IF x.kind # "num" \/ y.kind # "num"
                     THEN Val("sqrt_approx", 0, 1, ApproxOf(x) \o ApproxOf(y))
                 ELSE IF y.n > 0 THEN Val("sqrt", x.n, y.n, <<>>)
                 ELSE Num(0)

\* hl.cond(var_dp > 0, agg_expr[QUALapprox] / var_dp, 0)
EvalQD(item, es) ==
    LET var_dp == EvalAggregator(item.args[2], es)
    IN  IF var_dp.n > 0 THEN Quotient(EvalAggregator(item.args[1], es), var_dp.n)
        ELSE Num(0)

\* fs_from_sb(agg_expr['SB']): a function of the SB aggregate.
EvalFS(item, es) == Val("FS", 0, 1, EvalAggregator(item.args[1], es).of)

Eval(item, es) ==
    IF item.agg = "MQ" THEN EvalMQ(item, es)
    ELSE IF item.agg = "FS" THEN EvalFS(item, es)
    ELSE IF item.agg = "QD" THEN EvalQD(item, es)
    ELSE EvalAggregator(Operand(item), es)

\* The entries of the row, in column order.
RowEntries(entries) == [i \in 1..Len(Cols) |-> entries[Cols[i]]]

\* The struct of the aggregations evaluated over the entries es.
EvalStruct(agg_expr, es) == {[key |-> x.key, val |-> Eval(x, es)] : x \in agg_expr}

InitAgg ==
    /\ pc = "agg"
    /\ InitMatrix
    /\ NoCoverageCall
    /\ NoPloidyCall
    /\ mt_schema \in MtSchemas
    /\ agg_args \in AggArgs
    /\ info_agg = NotCalled
    /\ info_locus = NoLocus
    /\ as_row = NoASRow
    /\ info_entries = NoInfoEntries
    /\ info = {}

\* _get_info_agg_expr, and the aggregations it returns run over the row.
GetInfoAggExpr ==
    /\ pc = "agg"
    /\ info_agg' = _get_info_agg_expr(mt_schema, agg_args)
    /\ info' = EvalStruct(info_agg'.agg_expr, RowEntries(info_entries))
    /\ pc' = "agg_done"
    /\ UNCHANGED <<rows, scan, ht, densifyVars, mt_schema, agg_args, info_locus, as_row,
                 info_entries,
                 ploidyVars, coverageVars>>

NextAgg == GetInfoAggExpr

SpecAgg == InitAgg /\ [][NextAgg]_vars

\* ------------------------------------------- calls on a row that has values
\* The entry schema after mt.transmute_entries(**mt.gvcf_info): every field
\* is a top-level entry field.
InfoSchema == [entry |-> InfoNames, gvcf_info |-> [def |-> FALSE, fields |-> {}]]

\* A request: for each of some names, the group it is asked for in, if any.
Requests(names, groups) == [names -> groups \cup {"none"}]

WellTyped(req) ==
    \A f \in DOMAIN req :
        req[f] # "none" => ((f \in ArrayFields) <=> (req[f] = "array_sum_agg_fields"))

\* The arguments of the call for a request: each group is the list of the
\* names asked for in it.
RequestArgs(req, prefix) ==
    [fields |-> [g \in GroupNames |->
                    [is_list |-> TRUE,
                     fields |-> SetToSeq({f \in DOMAIN req : req[f] = g})]],
     prefix |-> prefix]

Requested(req) == {f \in DOMAIN req : req[f] # "none"}

\* The fields of an entry that has values for the names R only.
FieldsFor(R) ==
    {[f \in InfoNames |-> IF f \in R THEN vs[f] ELSE <<>>] :
        vs \in {v \in [R -> UNION {FieldValues(f) : f \in R}] :
                   \A f \in R : v[f] \in FieldValues(f)}}

\* Rows whose entries have values for the requested fields only; only an
\* entry with a reference call has an END.
EntriesFor(req, calls, ends) ==
    {es \in [Samples -> [LGT : calls, END : ends, fields : FieldsFor(Requested(req))]] :
        \A j \in Samples : es[j].LGT # "hom_ref" => es[j].END = 0}

\* QD: QUALapprox and VarDP, each asked for in any group or not at all.
QDNames == {"QUALapprox", "VarDP"}

InitQD ==
    /\ pc = "agg"
    /\ InitMatrix
    /\ NoCoverageCall
    /\ NoPloidyCall
    /\ mt_schema = InfoSchema
    /\ \E req \in Requests(QDNames, GroupNames) :
          /\ agg_args \in {RequestArgs(req, prefix) : prefix \in Prefixes}
          /\ info_entries \in EntriesFor(req, {"non_ref"}, {0})
    /\ info_locus = NoLocus
    /\ as_row = NoASRow
    /\ info_agg = NotCalled
    /\ info = {}

SpecQD == InitQD /\ [][NextAgg]_vars

\* MQ: RAW_MQandDP, RAW_MQ and MQ_DP, each asked for in a group of its type
\* or not at all.
MQNames == {"RAW_MQandDP", "RAW_MQ", "MQ_DP"}

InitMQ ==
    /\ pc = "agg"
    /\ InitMatrix
    /\ NoCoverageCall
    /\ NoPloidyCall
    /\ mt_schema = InfoSchema
    /\ \E req \in {r \in Requests(MQNames, GroupNames) : WellTyped(r)} :
          /\ agg_args \in {RequestArgs(req, prefix) : prefix \in Prefixes}
          /\ info_entries \in EntriesFor(req, {"non_ref"}, {0})
    /\ info_locus = NoLocus
    /\ as_row = NoASRow
    /\ info_agg = NotCalled
    /\ info = {}

SpecMQ == InitMQ /\ [][NextAgg]_vars

\* ------------------------------------------------------ get_site_info_expr
\* agg_expr['FS'] = fs_from_sb(agg_expr['SB']): a KeyError without SB.
AddFS(agg_expr) ==
    Update(agg_expr,
        {[key |-> "FS", agg |-> "FS", expr |-> Item(agg_expr, "SB").expr,
          args |-> <<Operand(Item(agg_expr, "SB"))>>]})

\* The aggregations of the site-level info: those of _get_info_agg_expr
\* without prefix, and FS.
SiteAggExpr(mt, args) ==
    LET r == _get_info_agg_expr(mt, [args EXCEPT !.prefix = ""])
    IN  IF r.status # "returned" THEN r
        ELSE IF ~InAggExpr(r.agg_expr, "SB")
            THEN [status |-> "KeyError", missing |-> <<>>, agg_expr |-> {}]
        ELSE [r EXCEPT !.agg_expr = AddFS(@)]

\* mt.LGT.is_non_ref()
NonRef(es) == SelectSeq(es, LAMBDA e : e.LGT = "non_ref")

\* The info struct with no field restricted to the non-ref genotypes.
SiteInfoAllEntries(agg_expr, es) == EvalStruct(agg_expr, es)

\* The info struct with DP restricted to the non-ref genotypes as well.
SiteInfoNonRefDP(agg_expr, es) == EvalStruct(agg_expr, NonRef(es))

\* hl.agg.filter(mt.LGT.is_non_ref(), hl.struct(every item but DP)), then DP
\* annotated as it is in agg_expr: aggregated over all the entries.
SiteInfo(agg_expr, es) ==
    EvalStruct({x \in agg_expr : x.key # "DP"}, NonRef(es))
        \cup EvalStruct({x \in agg_expr : x.key = "DP"}, es)

GetSiteInfoExpr ==
    /\ pc = "agg"
    /\ info_agg' = SiteAggExpr(mt_schema, agg_args)
    /\ info' = SiteInfo(info_agg'.agg_expr, RowEntries(info_entries))
    /\ pc' = "agg_done"
    /\ UNCHANGED <<rows, scan, ht, densifyVars, mt_schema, agg_args, info_locus, as_row,
                 info_entries,
                 ploidyVars, coverageVars>>

\* The site-level calls: SB and DP, each asked for in a group of its type or
\* not at all, on a row of the first contig.  An entry with a reference call
\* is (part of) a reference block and has the block's END.
SiteNames == {"SB", "DP"}

BlockEnds(l) == {e \in {l.position, l.position + 1} : e <= ContigLength(l.contig)}

InitSite ==
    /\ pc = "agg"
    /\ InitMatrix
    /\ NoCoverageCall
    /\ NoPloidyCall
    /\ mt_schema = InfoSchema
    /\ info_locus \in {l \in Loci : l.contig = 1}
    /\ as_row = NoASRow
    /\ \E req \in {r \in Requests(SiteNames, GroupNames) : WellTyped(r)} :
          /\ agg_args = RequestArgs(req, "")
          /\ info_entries \in
                {es \in EntriesFor(req, {"hom_ref", "non_ref"}, {0} \cup BlockEnds(info_locus)) :
                    \A j \in Samples : es[j].LGT = "hom_ref" => es[j].END # 0}
    /\ info_agg = NotCalled
    /\ info = {}

NextSite == GetSiteInfoExpr

SpecSite == InitSite /\ [][NextSite]_vars

\* ------------------------------------------------------- impute_sex_ploidy
\* The contig taken when none is given, whatever the reference reports.
AutoDetectFirst(override, contigs) ==
    [raised |-> FALSE,
     chrom |-> IF override # None THEN override
               ELSE IF contigs = <<>> THEN None ELSE contigs[1],
     found |-> <<>>]

\* if chr is None: if len(ref.contigs) != 1: raise NotImplementedError(
\* "Found {len} chromosome contigs ({contigs}) ..."); chr = ref.contigs[0]
AutoDetect(override, contigs) ==
    IF override # None THEN [raised |-> FALSE, chrom |-> override, found |-> <<>>]
    ELSE IF Len(contigs) # 1 THEN [raised |-> TRUE, chrom |-> None, found |-> contigs]
    ELSE [raised |-> FALSE, chrom |-> contigs[1], found |-> <<>>]

\* contig_ht.count(): every position of the contig is a base outside the
\* pseudo-autosomal regions, and no interval table is given.
get_contig_size(contig) == Cardinality(ChrPositions)

\* hl.cond(LGT.is_hom_ref(), DP * (END - locus.position), DP): <<>> if missing.
DepthTerm(e) ==
    IF e.DP = <<>> THEN <<>>
    ELSE IF e.LGT = "hom_ref" THEN <<e.DP[1] * (e.END - e.position)>>
    ELSE e.DP

\* hl.agg.sum over the rows of the contig: missing terms are skipped.
RECURSIVE SumDepthTerms(_)
SumDepthTerms(ts) ==
    IF ts = <<>> THEN 0
    ELSE (IF Head(ts) = <<>> THEN 0 ELSE Head(ts)[1]) + SumDepthTerms(Tail(ts))

\* The column's mean_dp on a contig, as sum / contig_size.
get_chr_dp_ann(mt, chrom) ==
    LET chr_rows == IF mt.contig = chrom THEN mt.rows ELSE <<>>
    IN  [n |-> SumDepthTerms([i \in 1..Len(chr_rows) |-> DepthTerm(chr_rows[i])]),
         d |-> get_contig_size(chrom)]

\* mean_dp / (normalization mean_dp / 2), as a quotient of integers.
Ploidy(dp, norm) == [n |-> 2 * dp.n * norm.d, d |-> dp.d * norm.n]

impute_sex_ploidy(mt, args) ==
    LET x == AutoDetect(args.chr_x, args.x_contigs)
        y == AutoDetect(args.chr_y, args.y_contigs)
        norm_dp == get_chr_dp_ann(mt, normalization_contig)
        x_dp == get_chr_dp_ann(mt, x.chrom)
        y_dp == get_chr_dp_ann(mt, y.chrom)
    IN  IF x.raised
            THEN [status |-> "NotImplementedError", chromosome |-> "X", found |-> x.found]
        ELSE IF y.raised
            THEN [status |-> "NotImplementedError", chromosome |-> "Y", found |-> y.found]
        ELSE [status |-> "returned", chr_x |-> x.chrom, chr_y |-> y.chrom,
              norm_mean_dp |-> norm_dp, x_mean_dp |-> x_dp, y_mean_dp |-> y_dp,
              x_ploidy |-> Ploidy(x_dp, norm_dp), y_ploidy |-> Ploidy(y_dp, norm_dp)]

\* The contigs a reference genome reports: none, one or two.
ContigLists(candidates) == {SubSeq(candidates, 1, n) : n \in 0..Len(candidates)}

InitPloidy ==
    /\ pc = "ploidy"
    /\ InitMatrix
    /\ NoCoverageCall
    /\ mt_schema = NoSchema
    /\ agg_args = NoArgs
    /\ info_agg = NotCalled
    /\ info_locus = NoLocus
    /\ as_row = NoASRow
    /\ info_entries = NoInfoEntries
    /\ info = {}
    /\ ploidy_args \in [chr_x : {None, "X"}, chr_y : {None, "Y"},
                         x_contigs : ContigLists(XCandidates),
                         y_contigs : ContigLists(YCandidates)]
    /\ chr_mt \in [contig : PloidyContigs, rows : ChrRows]
    /\ ploidy = PloidyNotCalled

ImputeSexPloidy ==
    /\ pc = "ploidy"
    /\ ploidy' = impute_sex_ploidy(chr_mt, ploidy_args)
    /\ pc' = "ploidy_done"
    /\ UNCHANGED <<rows, scan, ht, densifyVars, aggVars, ploidy_args, chr_mt, coverageVars>>

NextPloidy == ImputeSexPloidy

SpecPloidy == InitPloidy /\ [][NextPloidy]_vars

\* -------------------------------------------------- compute_coverage_stats
\* sorted(coverage_over_x_bins), for a list without repetition.
RECURSIVE Sorted(_)
Sorted(b) ==
    IF b = <<>> THEN <<>>
    ELSE LET m == Min({b[i] : i \in 1..Len(b)})
         IN  <<m>> \o Sorted(SelectSeq(b, LAMBDA x : x # m))

\* The depth capped, with a missing depth taken as 0.
CappedDPMissingAsZero(dp, max_coverage_bin) ==
    IF dp = <<>> THEN 0
    ELSE IF dp[1] < max_coverage_bin THEN dp[1] ELSE max_coverage_bin

\* hl.or_else(hl.min(max_coverage_bin, mt.DP), 0): hl.min leaves its missing
\* arguments out, so that with DP missing it is max_coverage_bin, and the
\* or_else never has a missing value to replace.
CappedDP(dp, max_coverage_bin) ==
    IF dp = <<>> THEN max_coverage_bin
    ELSE IF dp[1] < max_coverage_bin THEN dp[1] ELSE max_coverage_bin

\* coverage_counter_expr.get(j, 0)
CoverageCounter(dps, max_coverage_bin, j) ==
    Cardinality({i \in 1..Len(dps) : CappedDP(dps[i], max_coverage_bin) = j})

RECURSIVE SumCounter(_, _, _)
SumCounter(dps, max_coverage_bin, J) ==
    IF J = {} THEN 0
    ELSE LET j == CHOOSE x \in J : TRUE
         IN  CoverageCounter(dps, max_coverage_bin, j)
                 + SumCounter(dps, max_coverage_bin, J \ {j})

\* The array no running total is taken of.
NoCumulativeSum(a) == a

\* hl.cumulative_sum
CumulativeSum(a) ==
    [k \in 1..Len(a) |-> SumSeq([i \in 1..k |-> <<a[i]>>], 1)]

\* The counts with each bin running from above its lower threshold up to
\* its upper threshold, and the first being of the depths above the last.
BinCountsAbove(dps, bins) ==
    LET n == Len(bins)
    IN  [k \in 1..n |->
            IF k = 1 THEN CoverageCounter(dps, bins[n] + 1, bins[n] + 1)
            ELSE SumCounter(dps, bins[n] + 1, (bins[n - k + 1] + 1)..bins[n - k + 2])]

\* The count at max_coverage_bin, then for i = len - 1 down to 1 the counts
\* of range(bins[i - 1], bins[i]): from the lower threshold up to, but not
\* including, the upper one.
BinCounts(dps, bins) ==
    LET n == Len(bins)
    IN  [k \in 1..n |->
            IF k = 1 THEN CoverageCounter(dps, bins[n], bins[n])
            ELSE SumCounter(dps, bins[n], bins[n - k + 1]..(bins[n - k + 2] - 1))]

\* count_array_expr
CountArray(dps, bins) == CumulativeSum(BinCounts(dps, bins))

\* The depths that are not missing.
DefinedDP(dps) == SelectSeq(dps, LAMBDA v : v # <<>>)

\* The row of the result for a densified row with depths dps: mean (0 when
\* NaN), median (0 when missing), total_DP and over_x for every threshold x,
\* as count_array_expr[i] / n_samples.
CoverageStats(dps, coverage_bins) ==
    LET bins == Sorted(coverage_bins)
        n == Len(bins)
        vs == DefinedDP(dps)
        counts == CountArray(dps, bins)
    IN  [mean |-> IF vs = <<>> THEN Num(0) ELSE Val("ratio", SumSeq(vs, 1), Len(vs), <<>>),
         median |-> IF vs = <<>> THEN Num(0)
                    ELSE Val("approx_median", 0, 1, [i \in 1..Len(vs) |-> vs[i][1]]),
         total_DP |-> SumSeq(vs, 1),
         over |-> [x \in {bins[m] : m \in 1..n} |->
                      LET m == CHOOSE i \in 1..n : bins[i] = x
                      IN  [n |-> counts[n - m + 1], d |-> Len(dps)]]]

\* The loci of S in key order.
RECURSIVE InOrder(_)
InOrder(S) ==
    IF S = {} THEN <<>>
    ELSE LET l == CHOOSE x \in S : \A y \in S : x = y \/ LocusLT(x, y)
         IN  <<l>> \o InOrder(S \ {l})

\* t.join(reference_ht.annotate(_in_ref=True), how='outer'), with the entries
\* of a row that mt does not have all missing.
OuterJoin(mt, ref) ==
    LET loci == InOrder(KeysOf(mt) \cup ref)
    IN  [i \in 1..Len(loci) |->
            IF HasKey(mt, loci[i]) THEN Lookup(mt, loci[i])
            ELSE [locus |-> loci[i], entries |-> [j \in Samples |-> MissingEntry]]]

\* hl.experimental.densify(mt), then mt.filter_rows(mt._in_ref)
DensifyThenFilter(mt, ref) ==
    SelectSeq(Densify(OuterJoin(mt, ref)), LAMBDA r : r.locus \in ref)

\* DP of an entry after mt.select_entries('END', 'DP'): the entry's val.
DPOf(e) == IF e.def THEN <<e.val>> ELSE <<>>

compute_coverage_stats(mt, ref, coverage_bins) ==
    LET kept == DensifyThenFilter(mt, ref)
    IN  [i \in 1..Len(kept) |->
            [locus |-> kept[i].locus,
             stats |-> CoverageStats([c \in 1..Len(Cols) |-> DPOf(kept[i].entries[Cols[c]])],
                                     coverage_bins)]]

\* The call on the matrix read so far.
ComputeCoverageStats ==
    /\ pc = "scan"
    /\ \E ref \in {S \in SUBSET Loci : Cardinality(S) <= MaxSites},
          b \in BinLists(1..2) :
          /\ reference_ht' = ref
          /\ coverage_over_x_bins' = b
          /\ coverage_ht' = compute_coverage_stats(rows, ref, b)
    /\ pc' = "coverage_done"
    /\ UNCHANGED <<rows, scan, ht, densifyVars, aggVars, ploidyVars, dense_DP>>

NextCoverage == ScanRow \/ ComputeCoverageStats

SpecCoverage == Init /\ [][NextCoverage]_vars

\* The statistics of one densified row, given by the depths of its columns.
InitRow ==
    /\ pc = "row"
    /\ InitMatrix
    /\ mt_schema = NoSchema
    /\ agg_args = NoArgs
    /\ info_agg = NotCalled
    /\ info_locus = NoLocus
    /\ as_row = NoASRow
    /\ info_entries = NoInfoEntries
    /\ info = {}
    /\ NoPloidyCall
    /\ reference_ht = {}
    /\ coverage_over_x_bins \in BinLists(Thresholds)
    /\ dense_DP \in {d \in SeqsUpTo(RowDepths, MaxSamples) : d # <<>>}
    /\ coverage_ht = <<>>

RowCoverageStats ==
    /\ pc = "row"
    /\ coverage_ht' = <<[locus |-> NoLocus,
                         stats |-> CoverageStats(dense_DP, coverage_over_x_bins)]>>
    /\ pc' = "row_done"
    /\ UNCHANGED <<rows, scan, ht, densifyVars, aggVars, ploidyVars,
                   reference_ht, coverage_over_x_bins, dense_DP>>

NextRow == RowCoverageStats

SpecRow == InitRow /\ [][NextRow]_vars

\* -------------------------------------------------------- get_as_info_expr
\* if 'AS_SB' in agg_expr: agg_expr['AS_SB_TABLE'] = agg_expr.pop('AS_SB')
RenameSB(agg_expr) ==
    {IF x.key = "AS_SB" THEN [x EXCEPT !.key = "AS_SB_TABLE"] ELSE x : x \in agg_expr}

\* The entries of the columns whatever their LA.
AlleleEntriesAnyLA(row, entries, ai) == RowEntries(entries)

\* hl.agg.filter(mt.LA.contains(ai), expr): the entries of the columns whose
\* LA contains ai, in column order.
AlleleEntries(row, entries, ai) ==
    LET kept == SelectSeq(Cols, LAMBDA j : LAContains(row.cols[j].LA, ai))
    IN  [i \in 1..Len(kept) |-> entries[kept[i]]]

\* hl.agg.array_agg(lambda ai: hl.agg.filter(...), hl.range(1, hl.len(mt.alleles)))
\* for every item of agg_expr: one element per alternate allele.
PerAllele(agg_expr, row, entries) ==
    {[key |-> x.key,
      val |-> [ai \in 1..row.n_alt |-> Eval(x, AlleleEntries(row, entries, ai))]] :
        x \in agg_expr}

\* The first row of the table taken over every allele's own last two
\* elements.
RefRowOfAlts(tbl) ==
    [k \in 1..2 |->
        SumSeq(SelectSeq([i \in 1..Len(tbl) |-> IF tbl[i].kind = "NA" THEN <<>> ELSE tbl[i].of],
                         LAMBDA v : v # <<>>), k + 2)]

\* info.AS_SB_TABLE.filter(lambda x: hl.is_defined(x))
\*     .fold(lambda i, j: i[:2] + j[:2], [0, 0])
RefRow(tbl) ==
    [k \in 1..2 |->
        SumSeq(SelectSeq([i \in 1..Len(tbl) |-> IF tbl[i].kind = "NA" THEN <<>> ELSE tbl[i].of],
                         LAMBDA v : v # <<>>), k)]

\* info.AS_SB_TABLE.map(lambda x: x[2:])
AltRow(x) == IF x.kind = "NA" THEN NAVal ELSE Val("array", 0, 1, SubSeq(x.of, 3, Len(x.of)))

\* as_sb_table: the reference row, then the row of each alternate allele.
SBTable(tbl) ==
    <<Val("array", 0, 1, RefRow(tbl))>> \o [i \in 1..Len(tbl) |-> AltRow(tbl[i])]

\* fs_from_sb(as_sb_table[0].extend(as_sb_table[i])): a function of the
\* concatenation, which is missing when row i is.
FSOfRows(ref_row, alt_row) ==
    Val("FS", 0, 1, IF alt_row.kind = "NA" THEN <<>> ELSE ref_row.of \o alt_row.of)

\* info with AS_SB_TABLE rebuilt and AS_FS added, if AS_SB_TABLE is in it.
AddSBTable(as_info, n_alt) ==
    IF \E x \in as_info : x.key = "AS_SB_TABLE"
        THEN LET as_sb_table == SBTable((CHOOSE x \in as_info : x.key = "AS_SB_TABLE").val)
             IN  {x \in as_info : x.key # "AS_SB_TABLE"}
                     \cup {[key |-> "AS_SB_TABLE", val |-> as_sb_table],
                           [key |-> "AS_FS",
                            val |-> [i \in 1..n_alt |->
                                        FSOfRows(as_sb_table[1], as_sb_table[i + 1])]]}
        ELSE as_info

\* The aggregations of the allele-specific info.
ASAggExpr(mt, args) ==
    LET r == _get_info_agg_expr(mt, [args EXCEPT !.prefix = "AS_"])
    IN  [r EXCEPT !.agg_expr = RenameSB(@)]

get_as_info_expr(agg_expr, row, entries) ==
    AddSBTable(PerAllele(agg_expr, row, entries), row.n_alt)

GetASInfoExpr ==
    /\ pc = "agg"
    /\ as_row.n_alt > 0
    /\ info_agg' = ASAggExpr(mt_schema, agg_args)
    /\ info' = IF info_agg'.status = "returned"
                   THEN get_as_info_expr(info_agg'.agg_expr, as_row, info_entries)
                   ELSE {}
    /\ pc' = "agg_done"
    /\ UNCHANGED <<rows, scan, ht, densifyVars, mt_schema, agg_args, info_locus, as_row,
                   info_entries, ploidyVars, coverageVars>>

\* The allele-specific calls: SB and QUALapprox, each asked for in a group of
\* its type or not at all, on a row of 1..MaxAlts alternate alleles.
ASNames == {"SB", "QUALapprox"}

\* Entries with values for the names asked for, SB being one of SBVectors.
ASEntries(req) ==
    [Samples -> {[LGT |-> "non_ref", END |-> 0,
                  fields |-> [f \in InfoNames |->
                                 IF f = "SB" /\ req["SB"] # "none" THEN sb
                                 ELSE IF f = "QUALapprox" /\ req["QUALapprox"] # "none" THEN q
                                 ELSE <<>>]] :
                    sb \in SBVectors, q \in FieldValues("QUALapprox")}]

InitAS ==
    /\ pc = "agg"
    /\ InitMatrix
    /\ NoCoverageCall
    /\ NoPloidyCall
    /\ mt_schema = InfoSchema
    /\ info_locus = NoLocus
    /\ \E n_alt \in 1..MaxAlts :
          as_row \in [n_alt : {n_alt},
                      cols : [Samples -> [LA : LocalAlleles(n_alt), LGT : {<<>>},
                                          adj : {FALSE}]]]
    /\ \E req \in {r \in Requests(ASNames, GroupNames) : WellTyped(r)} :
          /\ agg_args = RequestArgs(req, "AS_")
          /\ info_entries \in ASEntries(req)
    /\ info_agg = NotCalled
    /\ info = {}

NextAS == GetASInfoExpr

SpecAS == InitAS /\ [][NextAS]_vars

\* ---------------------------------------------------- default_compute_info
INFO_SUM_AGG_FIELDS == <<"QUALapprox">>
INFO_INT32_SUM_AGG_FIELDS == <<"VarDP">>
INFO_MEDIAN_AGG_FIELDS == <<"ReadPosRankSum", "MQRankSum">>
INFO_ARRAY_SUM_AGG_FIELDS == <<"SB", "RAW_MQandDP">>

\* The aggregated fields of a call that gives none: the defaults.
DefaultFields ==
    [g \in GroupNames |->
        [is_list |-> TRUE,
         fields |-> IF g = "sum_agg_fields" THEN INFO_SUM_AGG_FIELDS
                    ELSE IF g = "int32_sum_agg_fields" THEN INFO_INT32_SUM_AGG_FIELDS
                    ELSE IF g = "median_agg_fields" THEN INFO_MEDIAN_AGG_FIELDS
                    ELSE INFO_ARRAY_SUM_AGG_FIELDS]]
DefaultArgs == [fields |-> DefaultFields, prefix |-> ""]

\* mt.LGT.one_hot_alleles(mt.LA.map(lambda x: hl.str(x))): for every allele of
\* LA, how many times the call has it; missing when the call is.
one_hot_alleles(call, alleles) ==
    IF call = <<>> THEN <<>>
    ELSE [k \in 1..Len(alleles) |-> Cardinality({h \in 1..Len(call) : call[h] = k - 1})]

\* mt.LA.index(ai), counted from 0; missing (<<>>) when LA has no ai.
LAIndex(la, ai) ==
    IF ~LAContains(la, ai) THEN <<>>
    ELSE <<(CHOOSE k \in 1..Len(LocalAlleleList(la)) : LocalAlleleList(la)[k] = ai) - 1>>

\* one_hot_alleles(...)[mt.LA.index(ai)]: missing when either is.
OneHotAt(col, ai) ==
    LET counts == one_hot_alleles(col.LGT, LocalAlleleList(col.LA))
        at == LAIndex(col.LA, ai)
    IN  IF counts = <<>> \/ at = <<>> THEN <<>> ELSE <<counts[at[1] + 1]>>

\* hl.agg.filter(mt.LA.contains(ai), hl.agg.group_by(get_adj_expr(...),
\* hl.agg.sum(...))): a dict whose keys are the values of adj among the
\* columns whose LA contains ai, each with the sum of the counts that are not
\* missing.
GroupedCounts(row, ai) ==
    LET kept == {j \in Samples : LAContains(row.cols[j].LA, ai)}
        keys == {row.cols[j].adj : j \in kept}
    IN  [b \in keys |->
            SumSeq(SelectSeq([i \in 1..Len(Cols) |->
                                 IF Cols[i] \in kept /\ row.cols[Cols[i]].adj = b
                                     THEN OneHotAt(row.cols[Cols[i]], ai)
                                     ELSE <<>>],
                             LAMBDA v : v # <<>>), 1)]

\* i.get(key, 0)
Get(dict, key, default) == IF key \in DOMAIN dict THEN dict[key] ELSE default

\* The raw count taken from the adj group only.
AC_rawAdjOnly(i) == Num(Get(i, TRUE, 0))

\* hl.int32(i.get(True, 0) + i.get(False, 0))
AC_raw(i) == Num(Get(i, TRUE, 0) + Get(i, FALSE, 0))

\* hl.int32(i.get(True, 0))
AC(i) == Num(Get(i, TRUE, 0))

\* grp_ac_expr, and AC_raw and AC mapped over it.
AlleleCounts(row) ==
    LET grp_ac_expr == [ai \in 1..row.n_alt |-> GroupedCounts(row, ai)]
    IN  {[key |-> "AC_raw", val |-> [ai \in 1..row.n_alt |-> AC_raw(grp_ac_expr[ai])]],
         [key |-> "AC", val |-> [ai \in 1..row.n_alt |-> AC(grp_ac_expr[ai])]]}

\* info_expr.annotate(**fields): the fields added, those of the same name
\* replaced.
Annotate(info_expr, fields) == Update(info_expr, fields)

Raised(status) == [status |-> status, info |-> {}]

\* The fields of a site-level struct, the value of each held as a list of
\* one value: every field of info is then a list, the allele-specific ones of
\* one value per alternate allele.
SiteFields(site_info) == {[x EXCEPT !.val = <<@>>] : x \in site_info}

\* The info of the row: the allele-specific info, the site-level info if
\* asked for, AC_raw and AC; then lowqual reads info.QUALapprox, which fails
\* on a struct without that field.
default_compute_info(mt, row, entries, site_annotations) ==
    LET as == ASAggExpr(mt, DefaultArgs)
        site == SiteAggExpr(mt, DefaultArgs)
    IN  IF as.status # "returned" THEN Raised(as.status)
        ELSE IF site_annotations /\ site.status # "returned" THEN Raised(site.status)
        ELSE LET as_info == get_as_info_expr(as.agg_expr, row, entries)
                 info_expr == IF site_annotations
                                 THEN Annotate(as_info,
                                               SiteFields(SiteInfo(site.agg_expr,
                                                                   RowEntries(entries))))
                                 ELSE as_info
                 with_ac == Annotate(info_expr, AlleleCounts(row))
             IN  IF \E x \in with_ac : x.key = "QUALapprox"
                     THEN [status |-> "returned", info |-> with_ac]
                     ELSE Raised("AttributeError")

DefaultComputeInfo ==
    /\ pc = "info"
    /\ \E r \in {default_compute_info(mt_schema, as_row, info_entries,
                                        agg_args.site_annotations)} :
          /\ info_agg' = [status |-> r.status, missing |-> <<>>, agg_expr |-> {}]
          /\ info' = r.info
    /\ pc' = "info_done"
    /\ UNCHANGED <<rows, scan, ht, densifyVars, mt_schema, agg_args, info_locus, as_row,
                   info_entries, ploidyVars, coverageVars>>

\* mt.LGT.is_non_ref() of a call of indices into LA: missing when the call is.
CallKind(call) ==
    IF call = <<>> THEN "missing"
    ELSE IF \E h \in 1..Len(call) : call[h] # 0 THEN "non_ref" ELSE "hom_ref"

\* The gvcf fields of an entry: none, or a value of each of the defaults.
SomeFields ==
    [f \in InfoNames |->
        IF f = "SB" THEN <<1, 0, 0, 2>>
        ELSE IF f = "RAW_MQandDP" THEN <<1, 1>>
        ELSE IF f \in {"QUALapprox", "VarDP", "MQRankSum"} THEN <<1>>
        ELSE IF f = "ReadPosRankSum" THEN <<0>>
        ELSE <<>>]

\* Rows of 1..MaxAlts alternate alleles, every column with any LA, any call
\* its LA allows and either value of adj, with or without site annotations.
InitInfo ==
    /\ pc = "info"
    /\ InitMatrix
    /\ NoCoverageCall
    /\ NoPloidyCall
    /\ mt_schema = InfoSchema
    /\ info_locus = NoLocus
    /\ \E n_alt \in 1..MaxAlts :
          as_row \in {r \in [n_alt : {n_alt},
                              cols : [Samples -> [LA : LocalAlleles(n_alt),
                                                  LGT : Calls([def |-> TRUE, alts |-> 1..n_alt]),
                                                  adj : BOOLEAN]]] :
                         \A j \in Samples : r.cols[j].LGT \in Calls(r.cols[j].LA)}
    /\ agg_args \in [site_annotations : BOOLEAN]
    /\ info_entries \in
          {es \in [Samples -> [LGT : {"missing", "non_ref", "hom_ref"}, END : {0},
                               fields : {NoFields, SomeFields}]] :
              \A j \in Samples : es[j].LGT = CallKind(as_row.cols[j].LGT)}
    /\ info_agg = NotCalled
    /\ info = {}

NextInfo == DefaultComputeInfo

SpecInfo == InitInfo /\ [][NextInfo]_vars

\* ============================================================== properties
\* The reference blocks of the matrix, read off the rows themselves.
HasEND(e) == e.def /\ e.END # 0

Max(S) == CHOOSE x \in S : \A y \in S : x >= y

\* The rows before row i in which sample j starts a reference block.
BlockRowsBefore(i, j) == {m \in 1..(i - 1) : HasEND(rows[m].entries[j])}

\* Block (m, j) spans row i: same contig, start <= position <= END.
Spans(m, j, i) ==
    /\ rows[m].locus.contig = rows[i].locus.contig
    /\ rows[m].entries[j].END >= rows[i].locus.position

\* Sample j has an open covering block at row i: its most recent END-defined
\* entry in a strictly preceding row is on the row's contig and reaches it.
OpenCovering(i, j) ==
    /\ BlockRowsBefore(i, j) # {}
    /\ Spans(Max(BlockRowsBefore(i, j)), j, i)

NoBlocksAtAll ==
    \A m \in 1..Len(rows), j \in Samples : ~HasEND(rows[m].entries[j])

\* C1: every row of the scan table has last_END_position <= the row's
\* position, with equality exactly when no sample has an open covering block
\* at the row; with no END anywhere, last_END_position is the row's position.
C1_LastEndAtMostPosition ==
    /\ Len(ht) = Len(rows)
    /\ \A i \in 1..Len(ht) :
          /\ ht[i].locus = rows[i].locus
          /\ ht[i].last_END_position <= rows[i].locus.position
          /\ (ht[i].last_END_position = rows[i].locus.position)
                <=> ~(\E j \in Samples : OpenCovering(i, j))
    /\ NoBlocksAtAll =>
          \A i \in 1..Len(ht) : ht[i].last_END_position = rows[i].locus.position

\* A row strictly upstream of which a block is still open, and a row on
\* another contig than the block before it.
C1_Witness ==
    /\ \E i \in 1..Len(ht) : ht[i].last_END_position < rows[i].locus.position
    /\ \E i \in 1..Len(ht), j \in Samples :
          /\ BlockRowsBefore(i, j) # {}
          /\ ~OpenCovering(i, j)
          /\ ht[i].last_END_position = rows[i].locus.position

\* The start positions of the samples' most recent blocks that span row i.
RecentStarts(i) ==
    {rows[Max(BlockRowsBefore(i, j))].locus.position :
        j \in {k \in Samples : OpenCovering(i, k)}}

\* C2: exclusive-prefix, previous-non-null scan: last_END_position of row i is
\* the minimum start of the samples' most recent END-defined entries among the
\* rows strictly before i, over the samples whose entry reaches i on i's
\* contig, and the row's position when there is none; row i's own END and
\* entries with a missing END in between do not count.
C2_ExclusivePrevNonnullScan ==
    \A i \in 1..Len(ht) :
        ht[i].last_END_position =
            IF RecentStarts(i) = {} THEN rows[i].locus.position
            ELSE Min(RecentStarts(i))

\* A row that starts a block of its own while an older block of the same
\* sample, remembered across a row with a missing END, still covers it.
C2_Witness ==
    \E i \in 1..Len(ht), j \in Samples :
        /\ HasEND(rows[i].entries[j])
        /\ OpenCovering(i, j)
        /\ Max(BlockRowsBefore(i, j)) < i - 1
        /\ ht[i].last_END_position = rows[Max(BlockRowsBefore(i, j))].locus.position

\* The start positions of ALL blocks, of any sample and any preceding row,
\* that span row i.
AllStarts(i) ==
    {rows[m].locus.position :
        m \in {n \in 1..(i - 1) :
                \E j \in Samples : HasEND(rows[n].entries[j]) /\ Spans(n, j, i)}}

MinCoveringStart(i) ==
    IF AllStarts(i) = {} THEN rows[i].locus.position ELSE Min(AllStarts(i))

\* Each sample's blocks in the rows before i are non-overlapping and
\* increasing: a block starts after the sample's earlier blocks on the contig
\* have ended.
NonOverlappingBefore(i) ==
    \A j \in Samples, m1, m2 \in 1..(i - 1) :
        (/\ m1 < m2
         /\ HasEND(rows[m1].entries[j])
         /\ HasEND(rows[m2].entries[j])
         /\ rows[m1].locus.contig = rows[m2].locus.contig)
            => rows[m1].entries[j].END < rows[m2].locus.position

\* C3 as stated: last_END_position is the minimum start over ALL blocks
\* spanning the row, also when a sample's earlier long block still covers the
\* row and its later block has ended.
C3_MinOverAllBlocks ==
    \A i \in 1..Len(ht) : ht[i].last_END_position = MinCoveringStart(i)

\* C3 amended: only a sample's most recent block counts, so the scan never
\* reports a position upstream of the minimum covering start, and reports
\* exactly that minimum whenever each sample's blocks before the row are
\* non-overlapping and increasing.
C3_MinOverRecentBlocks ==
    \A i \in 1..Len(ht) :
        /\ ht[i].last_END_position >= MinCoveringStart(i)
        /\ NonOverlappingBefore(i) => ht[i].last_END_position = MinCoveringStart(i)

\* Blocks of different starts, none overlapping another of its sample, span
\* the row, and the scan reports the most upstream of them.
C3_Witness ==
    \E i \in 1..Len(ht) :
        /\ NonOverlappingBefore(i)
        /\ Cardinality(AllStarts(i)) >= 2
        /\ ht[i].last_END_position = MinCoveringStart(i)

\* ------------------------------------------------- densify_sites properties
Densified == pc = "densified"

RowLoci == {rows[i].locus : i \in 1..Len(rows)}

LociOf(rs) == {rs[i].locus : i \in 1..Len(rs)}

Range(f) == {f[i] : i \in 1..Len(f)}

\* The table handed to densify_sites is the scan table of the same matrix.
OwnTable == last_END_positions_ht = ht

\* The row of a locus in a sequence of rows.
RowAt(rs, l) == rs[CHOOSE i \in 1..Len(rs) : rs[i].locus = l]

\* Each sample's reference blocks are non-overlapping and increasing.
NonOverlapping == NonOverlappingBefore(Len(rows) + 1)

\* C4: with non-overlapping, increasing blocks per sample and the scan table
\* of the same matrix, every row densify_sites returns carries, for every
\* sample, the entry that densifying the whole matrix gives at that locus.
C4_TargetedAgreesWithFull ==
    (Densified /\ OwnTable /\ NonOverlapping) =>
        LET full == Densify(rows)
        IN  \A semi \in BOOLEAN : \A i \in 1..Len(dense[semi]) :
                /\ dense[semi][i].locus \in RowLoci
                /\ dense[semi][i].entries = RowAt(full, dense[semi][i].locus).entries

\* A returned row whose entry for some sample was filled in from a block that
\* starts two rows upstream, across a row that is no target.
C4_Witness ==
    /\ Densified /\ OwnTable /\ NonOverlapping
    /\ \E i \in 1..Len(dense[TRUE]), j \in Samples :
          LET l == dense[TRUE][i].locus
          IN  /\ ~RowAt(rows, l).entries[j].def
              /\ dense[TRUE][i].entries[j].def
              /\ \E m \in RowLoci \ sites_ht :
                    /\ LocusLT(rows[dense[TRUE][i].entries[j].val].locus, m)
                    /\ LocusLT(m, l)

\* C5: both strategies retain the same rows before densification and return
\* the same rows.
C5_StrategyEquivalence ==
    Densified =>
        /\ filtered[TRUE] = filtered[FALSE]
        /\ dense[TRUE] = dense[FALSE]

\* Two targets with intervals of their own, each retaining a row the other
\* does not.
C5_Witness ==
    /\ Densified
    /\ \E a, b \in AnnotatedSites(sites_ht, last_END_positions_ht) :
          /\ a # b
          /\ \E r \in Range(filtered[FALSE]) :
                IntervalContains(a.interval, r) /\ ~IntervalContains(b.interval, r)
          /\ \E r \in Range(filtered[FALSE]) :
                IntervalContains(b.interval, r) /\ ~IntervalContains(a.interval, r)

\* C6 as stated: the output has exactly one row for every locus of the target
\* list (every locus of the model is on a valid contig), so |S| rows, also for
\* targets that are no rows of the matrix.
C6_OneRowPerTarget ==
    Densified =>
        \A semi \in BOOLEAN :
            /\ LociOf(dense[semi]) = sites_ht
            /\ Len(dense[semi]) = Cardinality(sites_ht)

\* C6 amended: with the scan table of the same matrix, the output has exactly
\* one row for every target locus that is a row of the matrix, and no other
\* row; targets that are no rows of the matrix are absent.
C6_OneRowPerTargetInMatrix ==
    (Densified /\ OwnTable) =>
        \A semi \in BOOLEAN :
            /\ LociOf(dense[semi]) = sites_ht \cap RowLoci
            /\ Len(dense[semi]) = Cardinality(sites_ht \cap RowLoci)

\* A target list with a locus that is a row of the matrix, and is returned,
\* and one that is not.
C6_Witness ==
    /\ Densified
    /\ sites_ht \ RowLoci # {}
    /\ Len(dense[TRUE]) >= 1
    /\ Len(dense[FALSE]) >= 1

\* C7: only rows that are both in the matrix and in the target list (with an
\* interval built) are returned; a row retained only because it lies in some
\* target's interval is not.
C7_OnlyRowsInBoth ==
    Densified =>
        \A semi \in BOOLEAN :
            /\ \A i \in 1..Len(dense[semi]) :
                  /\ dense[semi][i].locus \in RowLoci
                  /\ dense[semi][i].locus \in sites_ht
                  /\ SiteInterval(last_END_positions_ht, dense[semi][i].locus).def
            /\ \A l \in Range(filtered[semi]) :
                  l \notin sites_ht => l \notin LociOf(dense[semi])

\* A row retained for a target downstream of it, itself no target, while the
\* target is returned.
C7_Witness ==
    /\ Densified
    /\ Range(filtered[TRUE]) \ sites_ht # {}
    /\ Len(dense[TRUE]) >= 1

\* The targets the last_END_positions table has no row for.
Unkeyed == {s \in sites_ht : ~HasKey(last_END_positions_ht, s)}

\* C8 as stated: a target that the table has no row for, and that is a row of
\* the matrix, is still in the output.
C8_UnkeyedTargetKept ==
    Densified =>
        \A semi \in BOOLEAN : (Unkeyed \cap RowLoci) \subseteq LociOf(dense[semi])

\* C8 amended: a target that the table has no row for gets a missing
\* interval and is discarded without failing: it is absent from the output
\* even when it is a row of the matrix, and the output rows are exactly the
\* other targets that are rows of the matrix.
C8_UnkeyedTargetDropped ==
    Densified =>
        \A semi \in BOOLEAN :
            /\ Unkeyed \cap LociOf(dense[semi]) = {}
            /\ LociOf(dense[semi]) = (sites_ht \ Unkeyed) \cap RowLoci

\* A target that is a row of the matrix and has no row in the table, next to
\* a target that is returned.
C8_Witness ==
    /\ Densified
    /\ Unkeyed \cap RowLoci # {}
    /\ Len(dense[TRUE]) >= 1

\* C9: on an input with no END anywhere, with every row locus a target and
\* the scan table of that input, densify_sites returns the input unchanged.
C9_DenseInputUnchanged ==
    (Densified /\ OwnTable /\ NoBlocksAtAll /\ RowLoci \subseteq sites_ht) =>
        \A semi \in BOOLEAN : dense[semi] = rows

\* A dense input of two rows with defined and missing entries.
C9_Witness ==
    /\ Densified /\ OwnTable /\ NoBlocksAtAll /\ RowLoci \subseteq sites_ht
    /\ Len(rows) = 2
    /\ \E i \in 1..2, j, k \in Samples :
          rows[i].entries[j].def /\ ~rows[i].entries[k].def
    /\ dense[FALSE] = rows

\* -------------------------------------------- _get_info_agg_expr properties
AggDone == pc = "agg_done"

\* A requested name that is neither a top-level entry field nor a field of
\* gvcf_info.
Unresolved(f) ==
    /\ f \notin mt_schema.entry
    /\ ~(mt_schema.gvcf_info.def /\ f \in mt_schema.gvcf_info.fields)

\* The unresolved names of the g-th group, when it is given as a list.
UnresolvedOf(g) ==
    LET a == agg_args.fields[AggGroups[g]]
    IN  IF a.is_list THEN {a.fields[i] : i \in {k \in 1..Len(a.fields) : Unresolved(a.fields[k])}}
                     ELSE {}

AllUnresolved == UNION {UnresolvedOf(g) : g \in 1..Len(AggGroups)}

AllLists == \A g \in GroupNames : agg_args.fields[g].is_list

\* The first group, in the order sum, int32 sum, median, array sum, that is a
\* list with an unresolved name.
FirstFailing == Min({g \in 1..Len(AggGroups) : UnresolvedOf(g) # {}})

NamesIn(s) == {s[i] : i \in 1..Len(s)}

\* C10 as stated: with every group given as a list and some requested name
\* unresolved, the call fails with one error that names all the unresolved
\* names of the four groups, and gives no aggregation.
C10_ErrorNamesAllUnresolved ==
    (AggDone /\ AllLists /\ AllUnresolved # {}) =>
        /\ info_agg.status = "ValueError"
        /\ NamesIn(info_agg.missing) = AllUnresolved
        /\ info_agg.agg_expr = {}

\* C10 amended: when some group given as a list has an unresolved name, the
\* call fails with one ValueError that names, in the order of the list, every
\* unresolved name of the first such group (in the order sum, int32 sum,
\* median, array sum) and no name of a later group; no aggregation is given.
C10_ErrorNamesFirstFailingGroup ==
    (AggDone /\ AllUnresolved # {}) =>
        /\ info_agg.status = "ValueError"
        /\ info_agg.missing =
              SelectSeq(agg_args.fields[AggGroups[FirstFailing]].fields, Unresolved)
        /\ NamesIn(info_agg.missing) = UnresolvedOf(FirstFailing)
        /\ info_agg.agg_expr = {}

\* Two groups given as lists each have an unresolved name that the other has
\* not, and the call has failed; and a call where one list has two unresolved
\* names is covered by the same formula.
C10_Witness ==
    /\ AggDone
    /\ AllLists
    /\ info_agg.status = "ValueError"
    /\ \E g, h \in 1..Len(AggGroups) :
          /\ g < h
          /\ UnresolvedOf(g) # {}
          /\ UnresolvedOf(h) \ UnresolvedOf(g) # {}

\* ------------------------------------------------ info values: properties
\* The group a name is asked for in.
AskedIn(f, g) == \E i \in 1..Len(agg_args.fields[g].fields) : agg_args.fields[g].fields[i] = f
Asked(f) == \E g \in GroupNames : AskedIn(f, g)
AskedForSum(f) == AskedIn(f, "sum_agg_fields") \/ AskedIn(f, "int32_sum_agg_fields")
AskedAsNumber(f) == AskedForSum(f) \/ AskedIn(f, "median_agg_fields")

\* The sum of a numeric field over the samples that have it.
RECURSIVE FieldSumOver(_, _)
FieldSumOver(f, S) ==
    IF S = {} THEN 0
    ELSE LET j == CHOOSE x \in S : TRUE
             v == info_entries[j].fields[f]
         IN  (IF v = <<>> THEN 0 ELSE v[1]) + FieldSumOver(f, S \ {j})
FieldSum(f) == FieldSumOver(f, Samples)

InInfo(k) == \E x \in info : x.key = k
InfoVal(k) == (CHOOSE x \in info : x.key = k).val

\* C11 as stated: whenever both VarDP and QUALapprox are aggregated, in
\* whichever group each was asked for, the call succeeds and gives QD, which
\* (for sums) is the QUALapprox sum over the VarDP sum when the VarDP sum is
\* above 0, and 0 otherwise.
C11_QDWhicheverGroup ==
    (AggDone /\ AskedAsNumber("VarDP") /\ AskedAsNumber("QUALapprox")) =>
        /\ info_agg.status = "returned"
        /\ InInfo(agg_args.prefix \o "QD")
        /\ (AskedForSum("VarDP") /\ AskedForSum("QUALapprox")) =>
              InfoVal(agg_args.prefix \o "QD") =
                  IF FieldSum("VarDP") > 0
                      THEN Val("ratio", FieldSum("QUALapprox"), FieldSum("VarDP"), <<>>)
                      ELSE Num(0)

\* ---------------------------------------------------------------- MQ
Returned == AggDone /\ info_agg.status = "returned"

\* The samples whose entry has the field.
HaveField(f) == {j \in Samples : info_entries[j].fields[f] # <<>>}

\* The sum of the k-th coordinate of a field over the samples that have it.
RECURSIVE CoordSumOver(_, _, _)
CoordSumOver(f, k, S) ==
    IF S = {} THEN 0
    ELSE LET j == CHOOSE x \in S : TRUE
         IN  info_entries[j].fields[f][k] + CoordSumOver(f, k, S \ {j})
CoordSum(f, k) == CoordSumOver(f, k, HaveField(f))

InfoKey(f) == agg_args.prefix \o f

\* The keys of the result are the names asked for, less `less`, plus `plus`.
InfoKeysAre(less, plus) ==
    {x.key : x \in info} =
        {InfoKey(f) : f \in ({g \in InfoNames : Asked(g)} \ less) \cup plus}

\* sqrt(n / d) when d > 0, and 0 otherwise.
SqrtOrZero(n, d) == IF d > 0 THEN Val("sqrt", n, d, <<>>) ELSE Num(0)

\* The scalar rule, for RAW_MQ and MQ_DP both summed, and the rule for every
\* other configuration.
MQScalarRule ==
    /\ (~Asked("RAW_MQandDP") /\ Asked("RAW_MQ") /\ Asked("MQ_DP")) =>
          /\ InfoKeysAre({"RAW_MQ", "MQ_DP"}, {"MQ"})
          /\ (AskedForSum("RAW_MQ") /\ AskedForSum("MQ_DP")) =>
                InfoVal(InfoKey("MQ")) =
                    SqrtOrZero(CoordSum("MQ_DP", 1), CoordSum("RAW_MQ", 1))
    /\ (~Asked("RAW_MQandDP") /\ ~(Asked("RAW_MQ") /\ Asked("MQ_DP"))) =>
          InfoKeysAre({}, {})

\* C12 as stated: with RAW_MQandDP aggregated the result has MQ and no
\* RAW_MQandDP, MQ being sqrt(a[0]/a[1]) when the summed a[1] is above 0 and
\* 0 otherwise; else with RAW_MQ and MQ_DP aggregated it has MQ =
\* sqrt(MQ_DP/RAW_MQ) when RAW_MQ is above 0 and 0 otherwise, and neither
\* input; otherwise no MQ is added and nothing is removed.
C12_MQZeroOtherwise ==
    Returned =>
        /\ Asked("RAW_MQandDP") =>
              /\ InfoKeysAre({"RAW_MQandDP"}, {"MQ"})
              /\ InfoVal(InfoKey("MQ")) =
                    SqrtOrZero(CoordSum("RAW_MQandDP", 1), CoordSum("RAW_MQandDP", 2))
        /\ MQScalarRule

\* C12, amended: the same, except that MQ is missing when no aggregated entry
\* has RAW_MQandDP defined (the array aggregate is then missing, not [0, 0]).
C12_MQMissingWithoutArrays ==
    Returned =>
        /\ Asked("RAW_MQandDP") =>
              /\ InfoKeysAre({"RAW_MQandDP"}, {"MQ"})
              /\ InfoVal(InfoKey("MQ")) =
                    IF HaveField("RAW_MQandDP") = {} THEN NAVal
                    ELSE SqrtOrZero(CoordSum("RAW_MQandDP", 1), CoordSum("RAW_MQandDP", 2))
        /\ MQScalarRule

\* RAW_MQandDP sums to [0, 0] over entries that have it, RAW_MQ and MQ_DP were
\* asked for as well, and MQ is 0 with RAW_MQ and MQ_DP still in the result.
C12_Witness ==
    /\ Returned
    /\ Asked("RAW_MQandDP") /\ Asked("RAW_MQ") /\ Asked("MQ_DP")
    /\ HaveField("RAW_MQandDP") # {}
    /\ CoordSum("RAW_MQandDP", 2) = 0
    /\ InInfo(InfoKey("MQ")) /\ InfoVal(InfoKey("MQ")) = Num(0)
    /\ InInfo(InfoKey("RAW_MQ")) /\ InInfo(InfoKey("MQ_DP"))

\* ------------------------------------------------------- site-level info
NonRefSamples == {j \in Samples : info_entries[j].LGT = "non_ref"}
RefSamples == Samples \ NonRefSamples

\* The samples of S whose entry has the field.
HaveFieldIn(f, S) == {j \in S : info_entries[j].fields[f] # <<>>}

\* The elementwise sum of an array field over the samples of S that have it;
\* missing when none has.
ArraySumIn(f, S) ==
    LET H == HaveFieldIn(f, S)
    IN  IF H = {} THEN NAVal
        ELSE Val("array", 0, 1, <<CoordSumOver(f, 1, H), CoordSumOver(f, 2, H)>>)

\* The sum of a numeric field over the samples of S that have it.
SumIn(f, S) == Num(CoordSumOver(f, 1, HaveFieldIn(f, S)))

\* The approximate median of a numeric field over the samples of S that have
\* it; missing when none has.
MedianIn(f, S) ==
    LET H == HaveFieldIn(f, S)
    IN  IF H = {} THEN NAVal
        ELSE Val("approx_median", 0, 1,
                 [x1 \in 1..(MaxValue + 1) |->
                     Cardinality({j \in H : info_entries[j].fields[f][1] = x1 - 1})])

\* C13: in the site-level info every field other than DP (here SB and FS) is
\* aggregated over the entries with a non-reference call only, so that an
\* entry with a reference call changes none of them, and DP, when asked for,
\* is aggregated over the entries of all calls.
C13_NonRefOnlyExceptDP ==
    Returned =>
        /\ {x.key : x \in info} = {"SB", "FS"} \cup {f \in {"DP"} : Asked(f)}
        /\ InfoVal("SB") = ArraySumIn("SB", NonRefSamples)
        /\ InfoVal("FS") = Val("FS", 0, 1, ArraySumIn("SB", NonRefSamples).of)
        /\ AskedForSum("DP") => InfoVal("DP") = SumIn("DP", Samples)
        /\ AskedIn("DP", "median_agg_fields") => InfoVal("DP") = MedianIn("DP", Samples)

\* An entry with a reference call has SB and a depth above 0, another with a
\* non-reference call has them too, and DP was summed.
C13_Witness ==
    /\ Returned
    /\ AskedForSum("DP")
    /\ \E j \in RefSamples, k \in NonRefSamples :
          /\ j \in HaveFieldIn("SB", Samples) /\ info_entries[j].fields["SB"][1] > 0
          /\ j \in HaveFieldIn("DP", Samples) /\ info_entries[j].fields["DP"][1] > 0
          /\ k \in HaveFieldIn("SB", Samples) /\ k \in HaveFieldIn("DP", Samples)
    /\ InfoVal("DP") # SumIn("DP", NonRefSamples)
    /\ InfoVal("SB") # ArraySumIn("SB", Samples)

\* C14 as stated: in the site-level DP sum an entry of a reference block
\* (reference call, END defined) contributes DP * (END - locus.position) and
\* an entry with a non-reference call its DP.
RECURSIVE WeightedDepthOver(_)
WeightedDepthOver(S) ==
    IF S = {} THEN 0
    ELSE LET j == CHOOSE x \in S : TRUE
             e == info_entries[j]
         IN  (IF e.LGT = "hom_ref"
                  THEN e.fields["DP"][1] * (e.END - info_locus.position)
                  ELSE e.fields["DP"][1])
                 + WeightedDepthOver(S \ {j})

C14_SiteDPRunLengthWeighted ==
    (Returned /\ AskedForSum("DP")) =>
        InfoVal("DP") = Num(WeightedDepthOver(HaveFieldIn("DP", Samples)))

\* C14, amended: in the site-level DP sum every entry that has a depth, of a
\* reference block or not, contributes its bare depth.
C14_SiteDPBareSum ==
    (Returned /\ AskedForSum("DP")) => InfoVal("DP") = SumIn("DP", Samples)

\* A reference-block entry with a depth above 0 whose END is not the position
\* after the row's: its bare depth is in the DP sum.
C14_Witness ==
    /\ Returned
    /\ AskedForSum("DP")
    /\ \E j \in RefSamples :
          /\ j \in HaveFieldIn("DP", Samples)
          /\ info_entries[j].fields["DP"][1] > 0
          /\ info_entries[j].END - info_locus.position # 1
    /\ InfoVal("DP") = SumIn("DP", Samples)
    /\ InfoVal("DP") # Num(WeightedDepthOver(HaveFieldIn("DP", Samples)))

\* ------------------------------------------------------ sex ploidy depths
PloidyDone == pc = "ploidy_done"
PloidyReturned == PloidyDone /\ ploidy.status = "returned"

\* The positions a reference block covers.
BlockLength(e) == e.END - e.position + 1

\* The depth of an entry times the number of positions it covers.
RECURSIVE DepthOverPositions(_)
DepthOverPositions(rs) ==
    IF rs = <<>> THEN 0
    ELSE (IF Head(rs).DP = <<>> THEN 0
          ELSE IF Head(rs).LGT = "hom_ref" THEN Head(rs).DP[1] * BlockLength(Head(rs))
          ELSE Head(rs).DP[1])
             + DepthOverPositions(Tail(rs))

\* The reference block of depth 4 over positions 100..103.
Block100To103 == [position |-> 100, LGT |-> "hom_ref", END |-> 103, DP |-> <<4>>]

\* C15 as stated: a reference-block entry of depth 4 over positions 100..103
\* contributes 16 to the depth sum, not 4: a block contributes its depth
\* times the number of positions it covers.
C15_BlockContributesDepthTimesLength ==
    (PloidyReturned /\ chr_mt.contig = normalization_contig) =>
        /\ chr_mt.rows = <<Block100To103>> => ploidy.norm_mean_dp.n = 16
        /\ ploidy.norm_mean_dp.n = DepthOverPositions(chr_mt.rows)

\* C19: with no chr_x given and more than one X contig in the reference the
\* call fails before any depth is computed, with an error that lists the X
\* contigs; likewise for Y once the X contig is settled; and with chr_x given
\* the call never fails over the X contigs, nor with chr_y given over the Y
\* contigs.
C19_AutoDetectFailsOnSeveralContigs ==
    PloidyDone =>
        /\ (ploidy_args.chr_x = None /\ Len(ploidy_args.x_contigs) > 1) =>
              ploidy = [status |-> "NotImplementedError", chromosome |-> "X",
                        found |-> ploidy_args.x_contigs]
        /\ (ploidy_args.chr_y = None /\ Len(ploidy_args.y_contigs) > 1) =>
              /\ ploidy.status = "NotImplementedError"
              /\ ploidy.chromosome = "Y" => ploidy.found = ploidy_args.y_contigs
              /\ ploidy.chromosome = "X" =>
                    (ploidy_args.chr_x = None /\ Len(ploidy_args.x_contigs) # 1)
        /\ (ploidy_args.chr_x # None /\ ploidy.status # "returned") =>
              ploidy.chromosome = "Y"
        /\ (ploidy_args.chr_y # None /\ ploidy.status # "returned") =>
              ploidy.chromosome = "X"
        /\ (ploidy_args.chr_x # None /\ ploidy_args.chr_y # None) =>
              ploidy.status = "returned"

\* chr_x is given while the reference has two X contigs, no chr_y is given
\* and the reference has two Y contigs: the call failed over Y, listing both,
\* on a matrix that has a depth to sum.
C19_Witness ==
    /\ PloidyDone
    /\ ploidy_args.chr_x # None /\ Len(ploidy_args.x_contigs) = 2
    /\ ploidy_args.chr_y = None /\ Len(ploidy_args.y_contigs) = 2
    /\ ploidy = [status |-> "NotImplementedError", chromosome |-> "Y",
                  found |-> YCandidates]
    /\ \E i \in 1..Len(chr_mt.rows) : chr_mt.rows[i].DP # <<>>

\* ------------------------------------------------------ coverage fractions
RowDone == pc = "row_done"
RowStats == coverage_ht[1].stats

\* The columns of the row whose depth is defined and at least x, above x, or
\* missing.
AtLeast(x) == {i \in 1..Len(dense_DP) : dense_DP[i] # <<>> /\ dense_DP[i][1] >= x}
Above(x) == {i \in 1..Len(dense_DP) : dense_DP[i] # <<>> /\ dense_DP[i][1] > x}
MissingDP == {i \in 1..Len(dense_DP) : dense_DP[i] = <<>>}

GivenThresholds == {coverage_over_x_bins[i] : i \in 1..Len(coverage_over_x_bins)}

\* C16: for thresholds x < y, given in any order, and any depths, missing
\* ones included, over_x >= over_y, and every over_x is between 0 and 1.
C16_CoverageMonotone ==
    RowDone =>
        /\ DOMAIN RowStats.over = GivenThresholds
        /\ \A x, y \in GivenThresholds :
              x < y => /\ RowStats.over[x].d = RowStats.over[y].d
                       /\ RowStats.over[x].n >= RowStats.over[y].n
        /\ \A x \in GivenThresholds :
              /\ RowStats.over[x].d > 0
              /\ 0 <= RowStats.over[x].n
              /\ RowStats.over[x].n <= RowStats.over[x].d

\* Three thresholds given out of order on a row with a missing depth, and
\* fractions that differ.
C16_Witness ==
    /\ RowDone
    /\ coverage_over_x_bins = <<10, 1, 5>>
    /\ MissingDP # {}
    /\ RowStats.over[1].n > RowStats.over[5].n
    /\ RowStats.over[5].n > RowStats.over[10].n

FourDepths == dense_DP = <<<<0>>, <<5>>, <<10>>, <<20>>>>
FiveAndTen == coverage_over_x_bins = <<5, 10>>

CoverageDone == pc = "coverage_done"

\* The rows of the matrix before locus l in which sample j starts a block.
BlockRowsBeforeLocus(l, j) ==
    {m \in 1..Len(rows) : LocusLT(rows[m].locus, l) /\ HasEND(rows[m].entries[j])}

\* The depth of sample j at locus l: that of its entry in the matrix row at
\* l, or else that of its most recent block before l, on a reference row or
\* not, when it reaches l; missing otherwise.
DepthAt(l, j) ==
    IF HasKey(rows, l) /\ Lookup(rows, l).entries[j].def
        THEN <<Lookup(rows, l).entries[j].val>>
    ELSE IF BlockRowsBeforeLocus(l, j) = {} THEN <<>>
    ELSE LET r == rows[Max(BlockRowsBeforeLocus(l, j))]
         IN  IF r.locus.contig = l.contig /\ r.entries[j].END >= l.position
                 THEN <<r.entries[j].val>>
                 ELSE <<>>

DepthsAt(l) == [c \in 1..Len(Cols) |-> DepthAt(l, Cols[c])]

\* The depths with 0 for the missing ones.
MissingAsZero(dps) == [i \in 1..Len(dps) |-> IF dps[i] = <<>> THEN <<0>> ELSE dps[i]]

\* One row per locus of the reference and no other row.
OneRowPerReferenceLocus ==
    [i \in 1..Len(coverage_ht) |-> coverage_ht[i].locus] = InOrder(reference_ht)

\* Blocks that start on rows outside the reference supply their depth.
BlocksSupplyDepth ==
    \A i \in 1..Len(coverage_ht) :
        coverage_ht[i].stats.total_DP =
            SumSeq(DefinedDP(DepthsAt(coverage_ht[i].locus)), 1)

\* C20 as stated: the result has one row per locus of the reference and no
\* other; a block that starts on a matrix row outside the reference supplies
\* its depth to the later reference positions it covers; and a sample with no
\* covering block at a position has a missing depth there, which counts as
\* depth 0 in the threshold fractions.
C20_MissingDepthCountsAsZero ==
    CoverageDone =>
        /\ OneRowPerReferenceLocus
        /\ BlocksSupplyDepth
        /\ \A i \in 1..Len(coverage_ht) :
              coverage_ht[i].stats.over =
                  CoverageStats(MissingAsZero(DepthsAt(coverage_ht[i].locus)),
                                coverage_over_x_bins).over

\* ---------------------------------------------------------- FS without SB
\* C25 as stated: the site-level info has FS if and only if SB is among the
\* aggregates: with SB asked for, the result has FS, taken of the summed SB;
\* with SB not asked for, the call still succeeds and gives the other fields
\* asked for, without FS.
C25_FSIffSB ==
    AggDone =>
        /\ info_agg.status = "returned"
        /\ Asked("SB") =>
              /\ InInfo("FS")
              /\ InfoVal("FS") = Val("FS", 0, 1, InfoVal("SB").of)
        /\ ~Asked("SB") =>
              {x.key : x \in info} = {f \in InfoNames : Asked(f)}

\* ---------------------------------------------------- coverage mean, median
\* C24 as stated: mean is the average depth over all the samples, that is
\* mean * (number of samples) = total_DP, with the number of samples that is
\* the denominator of the over_x fractions, also when some samples have no
\* depth; and mean and median are 0 when no sample has a depth.
C24_MeanOverAllSamples ==
    RowDone =>
        /\ \A x \in GivenThresholds : RowStats.over[x].d = Len(dense_DP)
        /\ RowStats.mean.n * Len(dense_DP) = RowStats.total_DP * RowStats.mean.d
        /\ MissingDP = 1..Len(dense_DP) =>
              RowStats.mean = Num(0) /\ RowStats.median = Num(0)
\* The allele-specific call returned.
ASReturned == AggDone /\ as_row.n_alt > 0 /\ info_agg.status = "returned"

AltAlleles == 1..as_row.n_alt

\* The samples whose LA contains the allele.
Containing(ai) == {j \in Samples : LAContains(as_row.cols[j].LA, ai)}

\* The entries a column could have had instead of its own: any values of the
\* fields asked for.
OtherEntries(j) ==
    {[info_entries[j] EXCEPT !.fields["SB"] = sb, !.fields["QUALapprox"] = q] :
        sb \in IF Asked("SB") THEN SBVectors ELSE {info_entries[j].fields["SB"]},
        q \in IF Asked("QUALapprox") THEN FieldValues("QUALapprox")
                                     ELSE {info_entries[j].fields["QUALapprox"]}}

\* The field k of the result had the entry of column j been e.
FieldWith(k, j, e) ==
    LET out == get_as_info_expr(info_agg.agg_expr, as_row, [info_entries EXCEPT ![j] = e])
    IN  (CHOOSE x \in out : x.key = k).val

\* No entry of a column whose LA lacks an allele changes the element of that
\* allele in field k.
OnlyOwnEntries(k) ==
    \A j \in {x \in Samples : \E ai \in AltAlleles : x \notin Containing(ai)} :
        \A e \in OtherEntries(j) : \A with \in {FieldWith(k, j, e)} :
            \A ai \in AltAlleles : j \notin Containing(ai) => with[ai] = InfoVal(k)[ai]

\* C21 as stated: every field of the allele-specific info is an array with
\* exactly one element per alternate allele, and element i of every field is
\* not changed by an entry whose LA does not contain i.
C21_EveryFieldPerAllele ==
    ASReturned =>
        \A x \in info : Len(x.val) = as_row.n_alt /\ OnlyOwnEntries(x.key)

\* C21, amended: when the call returns, every field of the allele-specific
\* info other than AS_SB_TABLE and AS_FS is an array with exactly one element
\* per alternate allele, element i being the aggregate over the entries whose
\* LA contains i, and an entry whose LA does not contain i never changes
\* element i of such a field.
C21_PerAlleleExceptSBTable ==
    ASReturned =>
        /\ {x.key : x \in info} \ {"AS_SB_TABLE", "AS_FS"} =
               {"AS_QUALapprox" : f \in {g \in {"QUALapprox"} : Asked(g)}}
        /\ \A x \in info :
              x.key \notin {"AS_SB_TABLE", "AS_FS"} =>
                  /\ Len(x.val) = as_row.n_alt
                  /\ OnlyOwnEntries(x.key)
        /\ \A ai \in AltAlleles :
              /\ AskedForSum("QUALapprox") =>
                    InfoVal("AS_QUALapprox")[ai] = SumIn("QUALapprox", Containing(ai))
              /\ AskedIn("QUALapprox", "median_agg_fields") =>
                    InfoVal("AS_QUALapprox")[ai] = MedianIn("QUALapprox", Containing(ai))

\* Two alternate alleles, QUALapprox summed, a column whose LA has the second
\* allele only and whose QUALapprox is above 0, and another column whose
\* LA has the first: the two elements of AS_QUALapprox differ.
C21_Witness ==
    /\ ASReturned
    /\ as_row.n_alt = 2
    /\ AskedForSum("QUALapprox")
    /\ \E j \in Containing(2) \ Containing(1) :
          /\ info_entries[j].fields["QUALapprox"] # <<>>
          /\ info_entries[j].fields["QUALapprox"][1] > 0
    /\ Containing(1) # {}
    /\ InfoVal("AS_QUALapprox")[1] # InfoVal("AS_QUALapprox")[2]

\* The k-th coordinate of the SB vector of an allele: the sum over the
\* columns whose LA contains it and that have SB.
VectorCoord(ai, k) == CoordSumOver("SB", k, HaveFieldIn("SB", Containing(ai)))

\* The alleles whose vector is defined.
WithVector == {ai \in AltAlleles : HaveFieldIn("SB", Containing(ai)) # {}}

RECURSIVE VectorCoordOver(_, _)
VectorCoordOver(A, k) ==
    IF A = {} THEN 0
    ELSE LET ai == CHOOSE x \in A : TRUE
         IN  VectorCoord(ai, k) + VectorCoordOver(A \ {ai}, k)

\* C22: when SB is asked for, the allele-specific info has no AS_SB;
\* AS_SB_TABLE has one row more than there are alternate alleles; its first
\* row is the elementwise sum of the first two elements of the vectors of the
\* alleles whose vector is defined ([0, 0] when none is); the row of allele i
\* is the last two elements of its own vector; and AS_FS has one element per
\* alternate allele, taken from the first row followed by the row of the
\* allele.
C22_SBTable ==
    (ASReturned /\ Asked("SB")) =>
        /\ ~InInfo("AS_SB")
        /\ InInfo("AS_SB_TABLE") /\ InInfo("AS_FS")
        /\ Len(InfoVal("AS_SB_TABLE")) = as_row.n_alt + 1
        /\ InfoVal("AS_SB_TABLE")[1] =
               Val("array", 0, 1, <<VectorCoordOver(WithVector, 1),
                                    VectorCoordOver(WithVector, 2)>>)
        /\ Len(InfoVal("AS_FS")) = as_row.n_alt
        /\ \A ai \in AltAlleles :
              /\ ai \in WithVector =>
                    /\ InfoVal("AS_SB_TABLE")[ai + 1] =
                           Val("array", 0, 1, <<VectorCoord(ai, 3), VectorCoord(ai, 4)>>)
                    /\ InfoVal("AS_FS")[ai] =
                           Val("FS", 0, 1, InfoVal("AS_SB_TABLE")[1].of
                                               \o InfoVal("AS_SB_TABLE")[ai + 1].of)
              /\ ai \notin WithVector =>
                    /\ InfoVal("AS_SB_TABLE")[ai + 1] = NAVal
                    /\ InfoVal("AS_FS")[ai] = Val("FS", 0, 1, <<>>)

\* Two alternate alleles with a vector each, the first row of the table being
\* the first two elements of neither, and the rows of the alleles differing.
C22_Witness ==
    /\ ASReturned /\ Asked("SB")
    /\ as_row.n_alt = 2
    /\ WithVector = {1, 2}
    /\ \A ai \in AltAlleles :
          InfoVal("AS_SB_TABLE")[1].of # <<VectorCoord(ai, 1), VectorCoord(ai, 2)>>
    /\ InfoVal("AS_SB_TABLE")[2] # InfoVal("AS_SB_TABLE")[3]
    /\ InfoVal("AS_FS")[1] # InfoVal("AS_FS")[2]

InfoDone == pc = "info_done"
InfoReturned == InfoDone /\ info_agg.status = "returned"

\* How many alleles of a column's call are the allele ai; 0 for a missing
\* call.
CallCount(j, ai) ==
    LET col == as_row.cols[j]
    IN  Cardinality({h \in 1..Len(col.LGT) :
                        LocalAlleleList(col.LA)[col.LGT[h] + 1] = ai})

RECURSIVE CallCountOver(_, _)
CallCountOver(S, ai) ==
    IF S = {} THEN 0
    ELSE LET j == CHOOSE x \in S : TRUE
         IN  CallCount(j, ai) + CallCountOver(S \ {j}, ai)

\* The samples whose LA contains the allele and that are adj.
AdjContaining(ai) == {j \in Containing(ai) : as_row.cols[j].adj}

\* C23: in the info of default_compute_info, for every alternate allele i,
\* AC[i] is the number of times the calls of the adj samples whose LA contains
\* i have the allele, AC_raw[i] the same over all samples whose LA contains
\* i, a group with no sample counts as 0, and 0 <= AC[i] <= AC_raw[i].
C23_AlleleCounts ==
    InfoReturned =>
        /\ InInfo("AC") /\ InInfo("AC_raw")
        /\ Len(InfoVal("AC")) = as_row.n_alt
        /\ Len(InfoVal("AC_raw")) = as_row.n_alt
        /\ \A ai \in AltAlleles :
              /\ InfoVal("AC")[ai] = Num(CallCountOver(AdjContaining(ai), ai))
              /\ InfoVal("AC_raw")[ai] = Num(CallCountOver(Containing(ai), ai))
              /\ AdjContaining(ai) = {} => InfoVal("AC")[ai] = Num(0)
              /\ Containing(ai) = {} => InfoVal("AC_raw")[ai] = Num(0)
              /\ 0 <= InfoVal("AC")[ai].n
              /\ InfoVal("AC")[ai].n <= InfoVal("AC_raw")[ai].n

\* The call returned; one allele is in the calls of an adj and of a non-adj
\* sample, another in the call of a non-adj sample only, no adj sample having
\* it in its LA.
C23_Witness ==
    /\ InfoReturned
    /\ \E a, b \in AltAlleles :
          /\ 0 < InfoVal("AC")[a].n
          /\ InfoVal("AC")[a].n < InfoVal("AC_raw")[a].n
          /\ AdjContaining(b) = {}
          /\ InfoVal("AC")[b] = Num(0)
          /\ InfoVal("AC_raw")[b].n > 0

====
